---- MODULE Spec2Model ----
(***************************************************************************)
(* Digital Lounge: real-time player-state synchronisation.                 *)
(*                                                                         *)
(* Part I   - LoungeClient (lib/websocket/client.ts): the connection       *)
(*            state machine, its timers and the browser sockets it owns.   *)
(* Part II  - LoungeServer and PlayerRegistry: sessions, routing, the      *)
(*            liveness sweep and the position tick.                        *)
(* Part III - PlayerManager on a LoungeClient that talks to LoungeServer.  *)
(***************************************************************************)
EXTENDS FiniteSets, Integers, Naturals, Sequences, TLC

(***************************************************************************)
(* Bounds of the model.                                                    *)
(***************************************************************************)
MaxSockets == 3       \* sockets one client creates in a run
MaxAttempts == 2      \* largest configured maxReconnectAttempts
MaxLeaked == 2        \* reconnect timeouts pending without a handle
MaxPing == 2          \* cap of pingSeq
MaxSessions == 2      \* connections the server accepts in a run
MaxCoord == 1         \* coordinates range over 0..MaxCoord
MaxMoves == 2         \* cap of the count of moves of a player between ticks
MaxInbox == 2         \* envelopes in flight to one client socket
MaxBackoff == 7       \* maxReconnectAttempts of the backoff runs
MaxBufferSize == 3    \* the capacity of the snapshot buffer (10 in the code)
MaxStamp == 2         \* snapshot timestamps are 0..MaxStamp steps of StampStep
IdleStep == 30000     \* the short step of time of the status runs, in ms
TypingStep == 1000    \* the step of time of the typing runs, in ms
TypingHorizon == 8000 \* the length of a typing run, in ms
MaxHistory == 1       \* the capacity of the chat history (100 in the code)
MaxArgs == 3          \* words after the first word of a chat input

(***************************************************************************)
(* CloseCode (protocol.ts).  ABNORMAL is the code a browser reports for a  *)
(* connection that failed or was dropped without a close frame.            *)
(***************************************************************************)
NORMAL == 1000
GOING_AWAY == 1001
ABNORMAL == 1006
HEARTBEAT_TIMEOUT == 4000
CloseCodes == {NORMAL, GOING_AWAY, ABNORMAL, HEARTBEAT_TIMEOUT}

ConnectionState == {"disconnected", "connecting", "connected", "reconnecting"}
SockIds == 1..MaxSockets
NoSock == 0
NoId == 0

VARIABLES
  \* ---- ClientConfig ----
  autoReconnect,          \* config.autoReconnect
  maxReconnectAttempts,   \* config.maxReconnectAttempts
  urlOk,                  \* FALSE: new WebSocket(config.url) throws
  \* ---- LoungeClient fields ----
  state,                  \* ConnectionState
  socket,                 \* this.socket (NoSock = null)
  clientId,               \* this.clientId (NoId = null)
  reconnectAttempts,
  reconnectTimer,         \* "null" | "pending" | "fired": the handle held
  heartbeatTimer,         \* TRUE: the interval is set
  heartbeatTimeoutTimer,  \* "null" | "pending" | "fired"
  pingSeq,
  \* ---- event loop and browser sockets ----
  leakedReconnect,        \* pending reconnect timeouts no field refers to
  sockStatus,             \* per socket: readyState ("unused" before creation)
  sockOpened,             \* per socket: it reached OPEN at some time
  sockCloseCode,          \* per socket: code passed to close(), 0 if none
  connectInFlight,        \* per socket: the server's CONNECT is not yet delivered
  pongsInFlight,          \* per socket: PONG envelopes not yet delivered
  nextSock,               \* next socket to be created
  \* ---- observation of the last step ----
  last,                   \* the handler that ran last and what it did
  pongSincePing,          \* a PONG was handled since the last PING was sent
  autoAttempts,           \* sockets created by reconnect timers since the
                          \* last connect()/disconnect() call of the user
  \* ---- LoungeServer ----
  clients,                \* this.clients: the ids of the map, insertion order
  isAlive,                \* per session: ClientConnection.isAlive
  wsState,                \* per accepted socket: readyState on the server
  usedIds,                \* ids handed out so far
  \* ---- PlayerRegistry ----
  players,                \* this.players: id -> ServerPlayerState
  \* ---- observation of the last server callback ----
  sent,                   \* envelopes it sent, in order: [to, msg]
  slast,                  \* the callback, its session and what it did
  firstSent,              \* per socket: type of the first envelope sent on it
  pongSeen,               \* per session: a pong arrived since the last sweep
  acceptedSince,          \* per session: accepted since the last sweep
  touched,                \* players added or moved since the last tick:
                          \* id -> the latest position, rotation and the
                          \* number of moves
  \* ---- PlayerManager and the wire from the server to the client ----
  localPlayerId,          \* PlayerManager.localPlayerId
  remotePlayers,          \* PlayerManager.remotePlayers: the ids of the map
  pushed,                 \* ids whose buffer the last batch handler pushed to
  inbox,                  \* per client socket: envelopes sent to it, in order
  elast,                  \* the last step of client and server together
  \* ---- LoungeClient subscriptions ----
  messageHandlers,        \* this.messageHandlers: type -> Set of handlers
  stateChangeHandlers,    \* this.stateChangeHandlers: Set of handlers
  subs,                   \* the registrations made, in order: the key and
                          \* handler each unsubscribe closure captured, and
                          \* whether the closure was called
  dlast,                  \* the handlers the last client step invoked
  \* ---- LoungeClient, the reconnect timeout ----
  blast,                  \* the last call of handleConnectionFailure(): the
                          \* counter it found and the delay it armed
  \* ---- RemotePlayer ----
  positionBuffer,         \* this.positionBuffer: the snapshots, oldest first
  targetPosition,         \* this.targetPosition, one component, a fraction
  targetRotation,         \* this.targetRotation, one component, a fraction
  now,                    \* Date.now() at the last call
  ilast,                  \* the last call on the remote player
  \* ---- PresenceManager ----
  presenceId,             \* this.localPlayerId
  localStatus,            \* this.localStatus
  localIsTyping,          \* this.localIsTyping
  idleTimer,              \* this.idleTimer: the interval is pending
  typingTimer,            \* this.typingTimer: "null" or "pending"
  typingLeft,             \* milliseconds until the typing timeout is due
  sinceInput,             \* Date.now() - this.lastInputTime, up to AWAY_TIMEOUT
  attached,               \* the document listeners of the manager
                          \* (handleUserInput) are registered
  sinceKey,               \* milliseconds since the last setTyping(true), up
                          \* to TYPING_TIMEOUT
  plast,                  \* the last step of the manager and what it sent
  \* ---- ChatManager ----
  messages,               \* this.messages: the history, oldest first
  clast,                  \* the last call of send(input): the input, what it
                          \* was built from, what the call returned and sent
  \* ---- protocol.ts ----
  rlast,                  \* the last envelope serialized, the text and what
                          \* parseMessage returned for the text
  \* ---- dispose() of the managers, stop() of PlayerRegistry ----
  unsubscribers,          \* this.unsubscribers of each manager: the keys the
                          \* closures captured, in the order of the pushes
  disposed,               \* the managers whose dispose() has returned, and
                          \* "registry" after stop() until the next start()
  tickInterval,           \* PlayerRegistry.tickInterval: "null" or "pending"
  onBroadcast,            \* PlayerRegistry.onBroadcast is not null
  xlast,                  \* the last step: the managers whose handlers it
                          \* called
  \* ---- PresenceManager, the players it knows ----
  presencePlayers         \* this.players: the ids of the map

clientVars == <<state, socket, clientId, reconnectAttempts, reconnectTimer,
                heartbeatTimer, heartbeatTimeoutTimer, pingSeq>>
configVars == <<autoReconnect, maxReconnectAttempts, urlOk>>
envVars == <<leakedReconnect, sockStatus, sockOpened, sockCloseCode,
             connectInFlight, pongsInFlight, nextSock>>
obsVars == <<last, pongSincePing, autoAttempts>>
serverVars == <<clients, isAlive, wsState, usedIds, players, sent, slast,
                firstSent, pongSeen, acceptedSince, touched>>
managerVars == <<localPlayerId, remotePlayers, pushed, inbox, elast>>
dispatchVars == <<messageHandlers, stateChangeHandlers, subs, dlast>>
backoffVars == <<blast>>
interpVars == <<positionBuffer, targetPosition, targetRotation, now, ilast>>
presenceVars == <<presenceId, localStatus, localIsTyping, idleTimer,
                  typingTimer, typingLeft, sinceInput, attached, sinceKey,
                  plast>>
chatVars == <<messages, clast>>
protocolVars == <<rlast>>
lifeVars == <<unsubscribers, disposed, tickInterval, onBroadcast, xlast>>
rosterVars == <<presencePlayers>>
\* The variables of the units that are checked on their own.
unitVars ==
  <<backoffVars, interpVars, presenceVars, chatVars, protocolVars, lifeVars,
    rosterVars>>
\* The variables of client, server, manager and subscriptions.
mainVars == <<configVars, clientVars, envVars, obsVars, serverVars,
              managerVars, dispatchVars>>
vars == <<configVars, clientVars, envVars, obsVars, serverVars, managerVars,
          dispatchVars, unitVars>>

Last(op, s, code, ret, id) ==
  [op |-> op, sock |-> s, code |-> code, ret |-> ret, id |-> id]

(***************************************************************************)
(* The id the server assigns to the session of socket s.  The server draws *)
(* a fresh UUID per accepted socket; the socket's index stands for it.     *)
(***************************************************************************)
AssignedId(s) == s

Live(s) == sockStatus[s] \in {"connecting", "open"}

ConfigInit ==
  /\ autoReconnect \in BOOLEAN
  /\ maxReconnectAttempts \in 0..MaxAttempts
  /\ urlOk \in BOOLEAN

\* The fields of a LoungeClient after its constructor.
FieldsInit ==
  /\ state = "disconnected"
  /\ socket = NoSock
  /\ clientId = NoId
  /\ reconnectAttempts = 0
  /\ reconnectTimer = "null"
  /\ heartbeatTimer = FALSE
  /\ heartbeatTimeoutTimer = "null"
  /\ pingSeq = 0
  /\ leakedReconnect = 0
  /\ sockStatus = [s \in SockIds |-> "unused"]
  /\ sockOpened = [s \in SockIds |-> FALSE]
  /\ sockCloseCode = [s \in SockIds |-> 0]
  /\ connectInFlight = [s \in SockIds |-> FALSE]
  /\ pongsInFlight = [s \in SockIds |-> 0]
  /\ nextSock = 1
  /\ last = Last("init", NoSock, 0, "none", NoId)
  /\ pongSincePing = FALSE
  /\ autoAttempts = 0

ClientInit == ConfigInit /\ FieldsInit

----------------------------------------------------------------------------
(***************************************************************************)
(* Private helpers of LoungeClient.                                        *)
(***************************************************************************)

\* connect(): the early return.
ConnectReturnsEarly(st) == st \in {"connected", "connecting"}

\* connect(): the state it announces before creating the socket.
ConnectTarget(st) == IF st = "disconnected" THEN "connecting" ELSE "reconnecting"

\* handleConnectionFailure(): the give-up test.
GiveUp(attempts, max) == attempts >= max

\* DEFAULT_CONFIG.reconnectInterval, in milliseconds.
ReconnectInterval == 2000

\* Math.min
Min(a, b) == IF a <= b THEN a ELSE b

ReconnectDelay_Uncapped(attempts) == ReconnectInterval * attempts

\* handleConnectionFailure(): the delay of the timeout it arms, from the
\* counter it has just incremented.
ReconnectDelay(attempts) == ReconnectInterval * Min(attempts, 5)

\* handleConnectionFailure(), from the attempt counter, the reconnect handle
\* and the leak count it finds.  A timeout armed while the previous handle is
\* still pending leaves that one pending with no reference to it.  delay is
\* the delay of the timeout armed, 0 when none is.
HandleConnectionFailure(attempts, rt, lk) ==
  IF GiveUp(attempts, maxReconnectAttempts)
  THEN [state |-> "disconnected", reconnectAttempts |-> attempts,
        reconnectTimer |-> rt, leakedReconnect |-> lk, delay |-> 0]
  ELSE [state |-> "reconnecting", reconnectAttempts |-> attempts + 1,
        reconnectTimer |-> "pending",
        leakedReconnect |-> IF rt = "pending" THEN lk + 1 ELSE lk,
        delay |-> ReconnectDelay(attempts + 1)]

\* socket.onclose: the test that sends a close event to
\* handleConnectionFailure.
CloseReconnects(code, st) ==
  autoReconnect /\ code # NORMAL /\ st # "disconnected"

\* send() and the heartbeat interval: the guard.
CanSend(st, sock, id) == st = "connected" /\ sock # NoSock /\ id # NoId

\* WebSocket.send(data) on a socket of the given readyState: it throws while
\* CONNECTING, transmits while OPEN and drops the data otherwise.
SocketSend(status) ==
  CASE status = "connecting" -> "throw"
    [] status = "open" -> "sent"
    [] OTHER -> "dropped"

\* WebSocket.close(code) on socket s: starts the closing handshake of a
\* socket that is CONNECTING or OPEN, does nothing otherwise.
SocketClosed(s, code) ==
  IF s # NoSock /\ Live(s)
  THEN [status |-> [sockStatus EXCEPT ![s] = "closing"],
        code |-> [sockCloseCode EXCEPT ![s] = code]]
  ELSE [status |-> sockStatus, code |-> sockCloseCode]

\* The close codes the close event of socket s can carry.
CloseEventCodes(s) ==
  CASE sockStatus[s] = "connecting" -> {ABNORMAL}
    [] sockStatus[s] = "open" -> {NORMAL, GOING_AWAY, ABNORMAL}
    [] sockStatus[s] = "closing" ->
         IF sockOpened[s] THEN {sockCloseCode[s], GOING_AWAY, ABNORMAL}
         ELSE {ABNORMAL}
    [] OTHER -> {}

----------------------------------------------------------------------------
(***************************************************************************)
(* connect(), entered with reconnect handle rt and leak count lk (the      *)
(* reconnect timer callback changes them before it calls connect()).       *)
(***************************************************************************)
ConnectBody(rt, lk, auto) ==
  IF ConnectReturnsEarly(state)
  THEN /\ reconnectTimer' = rt
       /\ leakedReconnect' = lk
       /\ autoAttempts' = IF auto THEN autoAttempts ELSE 0
       /\ UNCHANGED <<state, socket, clientId, reconnectAttempts,
                      sockStatus, nextSock>>
  ELSE IF urlOk
  THEN /\ nextSock <= MaxSockets
       /\ state' = ConnectTarget(state)
       /\ socket' = nextSock
       /\ sockStatus' = [sockStatus EXCEPT ![nextSock] = "connecting"]
       /\ nextSock' = nextSock + 1
       /\ reconnectTimer' = rt
       /\ leakedReconnect' = lk
       /\ autoAttempts' = IF auto THEN autoAttempts + 1 ELSE 0
       /\ UNCHANGED <<clientId, reconnectAttempts>>
  ELSE LET f == HandleConnectionFailure(reconnectAttempts, rt, lk) IN
       /\ f.leakedReconnect <= MaxLeaked
       /\ state' = f.state
       /\ socket' = NoSock
       /\ clientId' = NoId
       /\ reconnectAttempts' = f.reconnectAttempts
       /\ reconnectTimer' = f.reconnectTimer
       /\ leakedReconnect' = f.leakedReconnect
       /\ autoAttempts' = IF auto THEN autoAttempts + 1 ELSE 0
       /\ UNCHANGED <<sockStatus, nextSock>>

\* connect() called by the application.
Connect ==
  /\ ConnectBody(reconnectTimer, leakedReconnect, FALSE)
  /\ last' = Last("connect", socket', 0, "none", NoId)
  /\ UNCHANGED <<configVars, heartbeatTimer, heartbeatTimeoutTimer, pingSeq,
                 sockOpened, sockCloseCode, connectInFlight, pongsInFlight,
                 pongSincePing>>

\* The reconnect timeout armed by handleConnectionFailure() fires: either
\* the one this.reconnectTimer refers to or one that was leaked.
ReconnectFire ==
  /\ \/ /\ reconnectTimer = "pending"
        /\ ConnectBody("fired", leakedReconnect, TRUE)
     \/ /\ leakedReconnect > 0
        /\ ConnectBody(reconnectTimer, leakedReconnect - 1, TRUE)
  /\ last' = Last("reconnectFire", socket', 0, "none", NoId)
  /\ UNCHANGED <<configVars, heartbeatTimer, heartbeatTimeoutTimer, pingSeq,
                 sockOpened, sockCloseCode, connectInFlight, pongsInFlight,
                 pongSincePing>>

\* disconnect() called by the application.
Disconnect ==
  LET c == SocketClosed(socket, NORMAL) IN
  /\ heartbeatTimer' = FALSE
  /\ heartbeatTimeoutTimer' = "null"
  /\ reconnectTimer' = "null"
  /\ reconnectAttempts' = 0
  /\ sockStatus' = c.status
  /\ sockCloseCode' = c.code
  /\ socket' = NoSock
  /\ clientId' = NoId
  /\ state' = "disconnected"
  /\ autoAttempts' = 0
  /\ last' = Last("disconnect", socket, 0, "none", NoId)
  /\ UNCHANGED <<configVars, pingSeq, leakedReconnect, sockOpened,
                 connectInFlight, pongsInFlight, nextSock, pongSincePing>>

\* send(type, payload) called by the application.
Send ==
  /\ IF CanSend(state, socket, clientId)
     THEN last' = Last("send", socket,
                       0, IF SocketSend(sockStatus[socket]) = "throw"
                          THEN "throw" ELSE "true",
                       IF SocketSend(sockStatus[socket]) = "throw"
                       THEN NoId ELSE clientId)
     ELSE last' = Last("send", NoSock, 0, "false", NoId)
  /\ UNCHANGED <<configVars, clientVars, envVars, pongSincePing, autoAttempts>>

----------------------------------------------------------------------------
(***************************************************************************)
(* Socket events.  The handlers are closures over the client, installed on *)
(* every socket the client creates and never removed.                      *)
(***************************************************************************)

\* socket.onopen.  The server accepts the connection and sends CONNECT.
SocketOpen(s) ==
  /\ sockStatus[s] = "connecting"
  /\ sockStatus' = [sockStatus EXCEPT ![s] = "open"]
  /\ sockOpened' = [sockOpened EXCEPT ![s] = TRUE]
  /\ connectInFlight' = [connectInFlight EXCEPT ![s] = TRUE]
  /\ reconnectAttempts' = 0
  /\ last' = Last("open", s, 0, "none", NoId)
  /\ UNCHANGED <<configVars, state, socket, clientId, reconnectTimer,
                 heartbeatTimer, heartbeatTimeoutTimer, pingSeq,
                 leakedReconnect, sockCloseCode, pongsInFlight, nextSock,
                 pongSincePing, autoAttempts>>

\* socket.onmessage with the CONNECT envelope: handleMessage, CONNECT case
\* (clientId, setState('connected'), startHeartbeat()).
ReceiveConnect(s) ==
  /\ sockStatus[s] = "open"
  /\ connectInFlight[s]
  /\ connectInFlight' = [connectInFlight EXCEPT ![s] = FALSE]
  /\ clientId' = AssignedId(s)
  /\ state' = "connected"
  /\ heartbeatTimer' = TRUE
  /\ heartbeatTimeoutTimer' = "null"
  /\ last' = Last("connectMsg", s, 0, "none", AssignedId(s))
  /\ UNCHANGED <<configVars, socket, reconnectAttempts, reconnectTimer,
                 pingSeq, leakedReconnect, sockStatus, sockOpened,
                 sockCloseCode, pongsInFlight, nextSock, pongSincePing,
                 autoAttempts>>

\* handleMessage, PONG case: what clearHeartbeatTimeout() leaves in the
\* handle.
PongClears(hto) == "null"

\* socket.onmessage with a PONG envelope.
ReceivePong(s) ==
  /\ sockStatus[s] = "open"
  /\ ~connectInFlight[s]
  /\ pongsInFlight[s] > 0
  /\ pongsInFlight' = [pongsInFlight EXCEPT ![s] = @ - 1]
  /\ heartbeatTimeoutTimer' = PongClears(heartbeatTimeoutTimer)
  /\ pongSincePing' = TRUE
  /\ last' = Last("pongMsg", s, 0, "none", NoId)
  /\ UNCHANGED <<configVars, state, socket, clientId, reconnectAttempts,
                 reconnectTimer, heartbeatTimer, pingSeq, leakedReconnect,
                 sockStatus, sockOpened, sockCloseCode, connectInFlight,
                 nextSock, autoAttempts>>

\* socket.onclose with the given code.
SocketClose(s, code) ==
  /\ code \in CloseEventCodes(s)
  /\ sockStatus' = [sockStatus EXCEPT ![s] = "closed"]
  /\ connectInFlight' = [connectInFlight EXCEPT ![s] = FALSE]
  /\ pongsInFlight' = [pongsInFlight EXCEPT ![s] = 0]
  /\ heartbeatTimer' = FALSE
  /\ heartbeatTimeoutTimer' = "null"
  /\ IF CloseReconnects(code, state)
     THEN LET f == HandleConnectionFailure(reconnectAttempts, reconnectTimer,
                                           leakedReconnect) IN
          /\ f.leakedReconnect <= MaxLeaked
          /\ state' = f.state
          /\ socket' = NoSock
          /\ clientId' = NoId
          /\ reconnectAttempts' = f.reconnectAttempts
          /\ reconnectTimer' = f.reconnectTimer
          /\ leakedReconnect' = f.leakedReconnect
     ELSE /\ clientId' = NoId
          /\ state' = "disconnected"
          /\ UNCHANGED <<socket, reconnectAttempts, reconnectTimer,
                         leakedReconnect>>
  /\ last' = Last("close", s, code, "none", NoId)
  /\ UNCHANGED <<configVars, pingSeq, sockOpened, sockCloseCode, nextSock,
                 pongSincePing, autoAttempts>>

----------------------------------------------------------------------------
(***************************************************************************)
(* Heartbeat.  heartbeatTimeout < heartbeatInterval: a pending timeout     *)
(* fires before the interval fires again.                                  *)
(***************************************************************************)

\* The setInterval callback of startHeartbeat().
HeartbeatTick ==
  /\ heartbeatTimer
  /\ heartbeatTimeoutTimer # "pending"
  /\ IF ~CanSend(state, socket, clientId)
     THEN /\ last' = Last("hbTick", NoSock, 0, "skip", NoId)
          /\ UNCHANGED <<pingSeq, heartbeatTimeoutTimer, pongsInFlight,
                         pongSincePing>>
     ELSE /\ pingSeq < MaxPing
          /\ pingSeq' = pingSeq + 1
          /\ IF SocketSend(sockStatus[socket]) = "throw"
             THEN /\ last' = Last("hbTick", socket, 0, "throw", NoId)
                  /\ UNCHANGED <<heartbeatTimeoutTimer, pongsInFlight,
                                 pongSincePing>>
             ELSE /\ heartbeatTimeoutTimer' = "pending"
                  /\ pongSincePing' = FALSE
                  /\ pongsInFlight' =
                       IF SocketSend(sockStatus[socket]) = "sent"
                       THEN [pongsInFlight EXCEPT ![socket] = @ + 1]
                       ELSE pongsInFlight
                  /\ last' = Last("hbTick", socket, 0, "ping", clientId)
  /\ UNCHANGED <<configVars, state, socket, clientId, reconnectAttempts,
                 reconnectTimer, heartbeatTimer, leakedReconnect, sockStatus,
                 sockOpened, sockCloseCode, connectInFlight, nextSock,
                 autoAttempts>>

\* The setTimeout callback armed after a PING:
\* this.socket?.close(HEARTBEAT_TIMEOUT).
HeartbeatTimeout ==
  LET c == SocketClosed(socket, HEARTBEAT_TIMEOUT) IN
  /\ heartbeatTimeoutTimer = "pending"
  /\ heartbeatTimeoutTimer' = "fired"
  /\ sockStatus' = c.status
  /\ sockCloseCode' = c.code
  /\ last' = Last("hbTimeout", socket, HEARTBEAT_TIMEOUT,
                  IF socket # NoSock /\ Live(socket) THEN "closed" ELSE "none",
                  NoId)
  /\ UNCHANGED <<configVars, state, socket, clientId, reconnectAttempts,
                 reconnectTimer, heartbeatTimer, pingSeq, leakedReconnect,
                 sockOpened, connectInFlight, pongsInFlight, nextSock,
                 pongSincePing, autoAttempts>>

----------------------------------------------------------------------------
(***************************************************************************)
(* Part II.  LoungeServer and PlayerRegistry.                              *)
(***************************************************************************)
\* A session id per socket a peer can open.
Ids == SockIds
Coords == 0..MaxCoord
NoExclude == 0
SERVER == 0               \* the senderId 'server'

\* createMessage(type, payload, senderId); the timestamp is not modelled.
Msg(type, payload, senderId) ==
  [type |-> type, payload |-> payload, senderId |-> senderId]

\* createDefaultPlayerState() as stored by addPlayer(): dirty from the start.
DefaultPlayer ==
  [position |-> 0, rotation |-> 0, status |-> "active", dirty |-> TRUE]

\* toPublicState(): the state without the server-side fields.
ToPublicState(pl, id) ==
  [id |-> id, position |-> pl[id].position, rotation |-> pl[id].rotation,
   status |-> pl[id].status]

\* getAllPlayers()
GetAllPlayers(pl) == {ToPublicState(pl, id) : id \in DOMAIN pl}

MapDelete_Keeps(m, id) == m

\* Map.delete(id) on a map kept as a function.
MapDelete(m, id) == [k \in DOMAIN m \ {id} |-> m[k]]

\* Map.delete(id) on the key order of this.clients.
SeqDelete(q, id) == SelectSeq(q, LAMBDA k : k # id)

\* sendTo(client, msg): only to a socket whose readyState is OPEN.
SendTo(ws, id, msg) ==
  IF ws[id] = "open" THEN <<[to |-> id, msg |-> msg]>> ELSE <<>>

BroadcastTo_NoExclusion(ws, id, excludeId) == ws[id] = "open"

\* broadcast(msg, excludeId): the recipients of one broadcast.
BroadcastTo(ws, id, excludeId) == id # excludeId /\ ws[id] = "open"

\* broadcast(msg, excludeId) over the map cl with socket states ws.
Broadcast(cl, ws, msg, excludeId) ==
  LET targets == SelectSeq(cl, LAMBDA id : BroadcastTo(ws, id, excludeId))
  IN [k \in 1..Len(targets) |-> [to |-> targets[k], msg |-> msg]]

\* The ids handed out are fresh (randomUUID()).
NextFreeId ==
  IF usedIds = Ids THEN NoId
  ELSE CHOOSE id \in Ids \ usedIds : \A j \in Ids \ usedIds : id <= j

\* The first envelope sent on each socket, after the sends of one callback.
FirstSentAfter(sends) ==
  [id \in Ids |->
     IF firstSent[id] # "none" THEN firstSent[id]
     ELSE IF \E k \in 1..Len(sends) : sends[k].to = id
     THEN sends[CHOOSE k \in 1..Len(sends) :
                  /\ sends[k].to = id
                  /\ \A j \in 1..(k - 1) : sends[j].to # id].msg.type
     ELSE "none"]

\* The moves of player id since the last tick, one more counted.
Moved(t, id) ==
  IF id \notin DOMAIN t THEN 1
  ELSE IF t[id].moves < MaxMoves THEN t[id].moves + 1 ELSE MaxMoves

SLast(op, id, removed, pinged, updates) ==
  [op |-> op, id |-> id, removed |-> removed, pinged |-> pinged,
   updates |-> updates]

ServerInit ==
  /\ clients = <<>>
  /\ isAlive = [id \in Ids |-> FALSE]
  /\ wsState = [id \in Ids |-> "none"]
  /\ usedIds = {}
  /\ players = <<>>
  /\ sent = <<>>
  /\ slast = SLast("init", 0, {}, {}, {})
  /\ firstSent = [id \in Ids |-> "none"]
  /\ pongSeen = [id \in Ids |-> FALSE]
  /\ acceptedSince = [id \in Ids |-> FALSE]
  /\ touched = <<>>

----------------------------------------------------------------------------
(***************************************************************************)
(* wss.on('connection'): the accept handler.                               *)
(***************************************************************************)
\* The envelopes of the accept handler, in send order, once the session and
\* the player are stored.
AcceptSends(cl, ws, pl, id) ==
  SendTo(ws, id, Msg("system:connect", [clientId |-> id], SERVER))
  \o SendTo(ws, id, Msg("player:state", [players |-> GetAllPlayers(pl)], SERVER))
  \o Broadcast(cl, ws, Msg("player:join", ToPublicState(pl, id), SERVER), id)
  \o Broadcast(cl, ws, Msg("chat:system", [senderId |-> SERVER, about |-> id,
                                           content |-> "joined"], SERVER),
               NoExclude)

Accept(id) ==
  /\ id \in Ids \ usedIds
  /\ Cardinality(usedIds) < MaxSessions
  /\ usedIds' = usedIds \cup {id}
  /\ clients' = Append(clients, id)
  /\ isAlive' = [isAlive EXCEPT ![id] = TRUE]
  /\ wsState' = [wsState EXCEPT ![id] = "open"]
  /\ players' = (id :> DefaultPlayer) @@ players
  /\ sent' = AcceptSends(clients', wsState', players', id)
  /\ slast' = SLast("accept", id, {}, {}, {})
  /\ firstSent' = FirstSentAfter(sent')
  /\ acceptedSince' = [acceptedSince EXCEPT ![id] = TRUE]
  /\ touched' = (id :> [position |-> DefaultPlayer.position,
                         rotation |-> DefaultPlayer.rotation, moves |-> 0])
                 @@ touched
  /\ UNCHANGED pongSeen

----------------------------------------------------------------------------
(***************************************************************************)
(* Frames a peer can send on its socket.  A frame either fails             *)
(* parseMessage (ok = FALSE) or is an envelope whose senderId and payload  *)
(* the peer chose freely: the ids it names need not be its own.  A         *)
(* position frame carries one coordinate for position and rotation.        *)
(***************************************************************************)
Statuses == {"active", "idle"}

\* The ids a frame can name.
FrameIds == 1..MaxSessions

\* What JSON.parse makes of a text frame: it throws on malformed text, and
\* otherwise yields null, a primitive, an array or an object.
JsonKinds == {"malformed", "null", "number", "string", "array", "object"}

\* What a parsed object holds under one of the four envelope keys.
FieldKinds == {"absent", "null", "number", "string", "object"}

\* The shape of a text frame: the kind of its JSON value and of the four
\* envelope fields (all absent unless the value is an object).
RawShape(json, type, payload, timestamp, senderId) ==
  [json |-> json, type |-> type, payload |-> payload,
   timestamp |-> timestamp, senderId |-> senderId]

\* The shape serializeMessage(createMessage(..)) produces.
WellFormed == RawShape("object", "string", "object", "number", "string")

\* The same envelope with JSON null as its payload.
WithNullPayload == RawShape("object", "string", "null", "number", "string")

\* JSON null as a payload.
NullPayload == [null |-> TRUE]

Validates_IgnoresTimestamp(raw) ==
  /\ raw.json \in {"array", "object"}
  /\ raw.type = "string"
  /\ raw.payload # "absent"
  /\ raw.senderId = "string"

\* parseMessage: the test a parsed value must pass to be returned.
Validates(raw) ==
  /\ raw.json \in {"array", "object"}
  /\ raw.type = "string"
  /\ raw.payload # "absent"
  /\ raw.timestamp = "number"
  /\ raw.senderId = "string"

\* The frames the sessions send while the server sweeps and ticks.  Every
\* session can send every frame, so the id a payload names and the
\* senderId are those of the sending session or of another one.
ClientFrames ==
  {[raw |-> RawShape("malformed", "absent", "absent", "absent", "absent"),
    type |-> "", payload |-> [none |-> 0], senderId |-> 0]}
  \cup {[raw |-> WellFormed, type |-> t, payload |-> [seq |-> 1],
         senderId |-> 1] : t \in {"system:ping", "system:pong"}}
  \cup {[raw |-> WellFormed, type |-> "player:position",
         payload |-> [id |-> 1, position |-> p, rotation |-> p],
         senderId |-> 1] : p \in Coords}
  \cup {[raw |-> WellFormed, type |-> "player:request_full_state",
         payload |-> [none |-> 0], senderId |-> 1]}
  \cup {[raw |-> WellFormed, type |-> "player:status_change",
         payload |-> [id |-> 1, status |-> st], senderId |-> 1] :
           st \in Statuses}
  \cup {[raw |-> WellFormed, type |-> "chat:send",
         payload |-> [content |-> "hi"], senderId |-> 1]}
  \cup {[raw |-> WellFormed, type |-> "system:connect",
         payload |-> [clientId |-> 1], senderId |-> 0]}

\* parseMessage(data): null when JSON.parse throws or the value fails the
\* validation, the parsed envelope otherwise.
ParseMessage(frame) ==
  IF frame.raw.json = "malformed" \/ ~Validates(frame.raw)
  THEN [type |-> "null", payload |-> [none |-> 0], senderId |-> 0]
  ELSE Msg(frame.type,
           IF frame.raw.payload = "null" THEN NullPayload ELSE frame.payload,
           frame.senderId)

IsNull(msg) == msg.type = "null"

\* String.startsWith on the type names of the model.
StartsWith(type, prefix) ==
  CASE prefix = "player:" ->
         type \in {"player:position", "player:request_full_state",
                   "player:status_change", "player:typing", "player:join",
                   "player:leave", "player:state", "player:batch_position"}
    [] prefix = "chat:" ->
         type \in {"chat:send", "chat:emote", "chat:message", "chat:whisper",
                   "chat:system", "chat:error"}
    [] prefix = "system:" ->
         type \in {"system:ping", "system:pong", "system:connect",
                   "system:disconnect", "system:error", "system:ack"}
    [] OTHER -> FALSE

IsPlayerMessage(msg) == StartsWith(msg.type, "player:")
IsChatMessage(msg) == StartsWith(msg.type, "chat:")

\* createChatMessage(senderId, senderName, content, type)
ChatMsg(senderId, content, type) ==
  [senderId |-> senderId, content |-> content, type |-> type]

\* PlayerRegistry.updatePosition(clientId, position, rotation)
UpdatePosition(pl, id, position, rotation) ==
  IF id \in DOMAIN pl
  THEN [pl EXCEPT ![id].position = position, ![id].rotation = rotation,
                  ![id].dirty = TRUE]
  ELSE pl

\* PlayerRegistry.updateStatus(clientId, status)
UpdateStatus(pl, id, status) ==
  IF id \in DOMAIN pl THEN [pl EXCEPT ![id].status = status] ELSE pl

\* handlePlayerMessage: the id whose position a PLAYER_POSITION writes.
PositionSubject(id, msg) == id

\* handlePlayerMessage: the id whose status a PLAYER_STATUS_CHANGE writes.
StatusSubject(id, msg) == id

\* handlePlayerMessage(client, msg): the registry after it.
PlayerMessagePlayers(id, msg) ==
  CASE msg.type = "player:position" ->
         UpdatePosition(players, PositionSubject(id, msg),
                        msg.payload.position, msg.payload.rotation)
    [] msg.type = "player:status_change" ->
         UpdateStatus(players, StatusSubject(id, msg), msg.payload.status)
    [] OTHER -> players

\* handlePlayerMessage(client, msg): the envelopes it sends.
PlayerMessageSends(id, msg) ==
  CASE msg.type = "player:request_full_state" ->
         SendTo(wsState, id,
                Msg("player:state", [players |-> GetAllPlayers(players)], SERVER))
    [] msg.type = "player:status_change" ->
         Broadcast(clients, wsState, msg, NoExclude)
    [] OTHER -> <<>>

\* The spellings of a username's prefix that a whisper may carry.
Stems == {"Player_", "player_"}

\* String.toLowerCase on a username (the hex digits of a UUID are lower
\* case already).
ToLowerCase(name) == [name EXCEPT !.stem = "player_"]

\* client.username: `Player_${clientId.substring(0, 6)}`
Username(id) == [stem |-> "Player_", id |-> id]

\* this.clients.get(targetId): NoId stands for undefined.
MapGet(cl, id) == IF \E k \in 1..Len(cl) : cl[k] = id THEN id ELSE NoId

\* The loop over this.clients.values(): the first session, in insertion
\* order, whose username equals targetName ignoring case.
FindByName(cl, targetName) ==
  LET hits == SelectSeq(cl, LAMBDA c :
                ToLowerCase(Username(c)) = ToLowerCase(targetName))
  IN IF hits = <<>> THEN NoId ELSE Head(hits)

\* A destructured payload field is truthy when it is present (the names
\* and ids of the model are non-empty strings).
Truthy(payload, field) == field \in DOMAIN payload

\* handleChatMessage CHAT_WHISPER: find target by ID or name.
ResolveTarget(cl, payload) ==
  IF Truthy(payload, "targetId") THEN MapGet(cl, payload.targetId)
  ELSE IF Truthy(payload, "targetName")
       THEN FindByName(cl, payload.targetName)
       ELSE NoId

\* createChatMessage(client.id, client.username, content, 'whisper',
\* targetClient.id, targetClient.username)
WhisperMsg(senderId, content, targetId) ==
  [senderId |-> senderId, content |-> content, type |-> "whisper",
   targetId |-> targetId, targetName |-> Username(targetId)]

\* handleChatMessage CHAT_WHISPER: the envelopes it sends.
WhisperSends(id, msg) ==
  LET target == ResolveTarget(clients, msg.payload) IN
  IF target = NoId
  THEN SendTo(wsState, id,
              Msg("chat:error", [code |-> "PLAYER_NOT_FOUND"], SERVER))
  ELSE SendTo(wsState, target,
              Msg("chat:message",
                  WhisperMsg(id, msg.payload.content, target), SERVER))
       \o SendTo(wsState, id,
                 Msg("chat:message",
                     WhisperMsg(id, msg.payload.content, target), SERVER))

\* handleChatMessage(client, msg): the envelopes it sends.
ChatMessageSends(id, msg) ==
  CASE msg.type = "chat:send" ->
         Broadcast(clients, wsState,
                   Msg("chat:message", ChatMsg(id, msg.payload.content, "chat"),
                       SERVER), NoExclude)
    [] msg.type = "chat:emote" ->
         Broadcast(clients, wsState,
                   Msg("chat:message", ChatMsg(id, msg.payload.action, "emote"),
                       SERVER), NoExclude)
    [] msg.type = "chat:whisper" -> WhisperSends(id, msg)
    [] OTHER -> <<>>

\* { seq: msg.payload.seq, serverTime }: a seq that is undefined is left
\* out when the PONG is serialized.
PongPayload(payload) ==
  IF "seq" \in DOMAIN payload THEN [seq |-> payload.seq] ELSE [none |-> 0]

\* handleMessage(client, data) throws a TypeError: a property is read from,
\* or destructured out of, a payload that is null.
Throws(msg) ==
  /\ ~IsNull(msg)
  /\ msg.payload = NullPayload
  /\ msg.type \in {"system:ping", "player:position", "player:status_change",
                   "chat:send", "chat:whisper", "chat:emote"}

\* handleMessage(client, data): the envelopes it sends.
MessageSends(id, msg) ==
  CASE IsNull(msg) ->
         SendTo(wsState, id,
                Msg("system:error", [code |-> "INVALID_MESSAGE"], SERVER))
    [] msg.type = "system:ping" ->
         SendTo(wsState, id, Msg("system:pong", PongPayload(msg.payload), SERVER))
    [] msg.type = "system:pong" -> <<>>
    [] OTHER ->
         IF IsPlayerMessage(msg) THEN PlayerMessageSends(id, msg)
         ELSE IF IsChatMessage(msg) THEN ChatMessageSends(id, msg)
         ELSE Broadcast(clients, wsState, msg, id)

\* socket.on('message'): handleMessage(client, data) for the session id.
Receive(id, frame) ==
  LET msg == ParseMessage(frame) IN
  /\ wsState[id] = "open"
  /\ sent' = IF Throws(msg) THEN <<>> ELSE MessageSends(id, msg)
  /\ players' = IF ~IsNull(msg) /\ IsPlayerMessage(msg) /\ ~Throws(msg)
                THEN PlayerMessagePlayers(id, msg) ELSE players
  /\ isAlive' = IF ~IsNull(msg) /\ msg.type = "system:pong"
                THEN [isAlive EXCEPT ![id] = TRUE] ELSE isAlive
  /\ pongSeen' = IF ~IsNull(msg) /\ msg.type = "system:pong"
                 THEN [pongSeen EXCEPT ![id] = TRUE] ELSE pongSeen
  /\ touched' = IF ~IsNull(msg) /\ msg.type = "player:position"
                   /\ ~Throws(msg) /\ id \in DOMAIN players
                THEN (id :> [position |-> msg.payload.position,
                             rotation |-> msg.payload.rotation,
                             moves |-> Moved(touched, id)])
                     @@ touched
                ELSE touched
  /\ slast' = SLast("message", id, {}, {}, {})
               @@ [msg |-> msg, raw |-> frame.raw, threw |-> Throws(msg)]
  /\ firstSent' = FirstSentAfter(sent')
  /\ UNCHANGED <<clients, wsState, usedIds, acceptedSince>>

\* socket.on('pong'): a pong frame of the peer.
PongFrame(id) ==
  /\ wsState[id] = "open"
  /\ isAlive' = [isAlive EXCEPT ![id] = TRUE]
  /\ pongSeen' = [pongSeen EXCEPT ![id] = TRUE]
  /\ sent' = <<>>
  /\ slast' = SLast("pong", id, {}, {}, {})
  /\ UNCHANGED <<clients, wsState, usedIds, players, firstSent,
                 acceptedSince, touched>>

\* The peer starts the closing handshake: the socket is CLOSING until its
\* 'close' event is emitted; the session stays in the map meanwhile.
PeerClose(id) ==
  /\ wsState[id] = "open"
  /\ wsState' = [wsState EXCEPT ![id] = "closing"]
  /\ sent' = <<>>
  /\ slast' = SLast("peerClose", id, {}, {}, {})
  /\ UNCHANGED <<clients, isAlive, usedIds, players, firstSent, pongSeen,
                 acceptedSince, touched>>

\* handleDisconnect(client, code, reason): the envelopes it broadcasts.
DisconnectSends(cl, ws, id) ==
  Broadcast(cl, ws, Msg("player:leave", [id |-> id], SERVER), NoExclude)
  \o Broadcast(cl, ws, Msg("chat:system", [senderId |-> SERVER, about |-> id,
                                           content |-> "left"], SERVER),
               NoExclude)
  \o Broadcast(cl, ws, Msg("system:disconnect", [clientId |-> id], SERVER),
               NoExclude)

\* socket.on('close'): handleDisconnect(client, code, reason).
CloseEvent(id) ==
  /\ wsState[id] \in {"open", "closing", "terminated"}
  /\ wsState' = [wsState EXCEPT ![id] = "closed"]
  /\ players' = MapDelete(players, id)
  /\ clients' = SeqDelete(clients, id)
  /\ isAlive' = [isAlive EXCEPT ![id] = FALSE]
  /\ sent' = DisconnectSends(clients', wsState', id)
  /\ slast' = SLast("close", id, {}, {}, {})
  /\ firstSent' = FirstSentAfter(sent')
  /\ pongSeen' = [pongSeen EXCEPT ![id] = FALSE]
  /\ acceptedSince' = [acceptedSince EXCEPT ![id] = FALSE]
  /\ touched' = MapDelete(touched, id)
  /\ UNCHANGED usedIds

----------------------------------------------------------------------------
(***************************************************************************)
(* startHeartbeat(): the liveness sweep.  The loop visits the sessions in  *)
(* map order; every broadcast sees the map as the loop has left it so far. *)
(***************************************************************************)
FailedHeartbeat_Never(alive) == FALSE

\* The test that condemns a session.
FailedHeartbeat(alive) == ~alive

\* One iteration of the loop, on the sweep state st, for session id.
SweepOne(st, id) ==
  IF FailedHeartbeat(st.isAlive[id])
  THEN LET ws == [st.wsState EXCEPT ![id] = "terminated"]
           cl == SeqDelete(st.clients, id)
       IN [st EXCEPT
             !.wsState = ws,
             !.clients = cl,
             !.players = MapDelete(st.players, id),
             !.removed = @ \cup {id},
             !.sent = @ \o Broadcast(cl, ws, Msg("player:leave", [id |-> id],
                                                 SERVER), NoExclude)
                        \o Broadcast(cl, ws, Msg("system:disconnect",
                                                 [clientId |-> id], SERVER),
                                     NoExclude)]
  ELSE [st EXCEPT !.isAlive[id] = FALSE, !.pinged = @ \cup {id}]

RECURSIVE SweepLoop(_, _, _)
SweepLoop(st, order, k) ==
  IF k > Len(order) THEN st
  ELSE SweepLoop(SweepOne(st, order[k]), order, k + 1)

Sweep ==
  LET st0 == [clients |-> clients, isAlive |-> isAlive, wsState |-> wsState,
              players |-> players, sent |-> <<>>, removed |-> {},
              pinged |-> {}]
      st == SweepLoop(st0, clients, 1)
  IN /\ clients' = st.clients
     /\ isAlive' = st.isAlive
     /\ wsState' = st.wsState
     /\ players' = st.players
     /\ sent' = st.sent
     /\ slast' = SLast("sweep", 0, st.removed, st.pinged, {})
     /\ firstSent' = FirstSentAfter(sent')
     /\ pongSeen' = [id \in Ids |-> FALSE]
     /\ acceptedSince' = [id \in Ids |-> FALSE]
     /\ touched' = [id \in DOMAIN touched \ st.removed |-> touched[id]]
     /\ UNCHANGED usedIds

----------------------------------------------------------------------------
(***************************************************************************)
(* PlayerRegistry.tick() with the callback of startPlayerBroadcast().      *)
(***************************************************************************)
Collected_All(pl) == DOMAIN pl

\* tick(): the players collected into the payload.
Collected(pl) == {id \in DOMAIN pl : pl[id].dirty}

\* tick(): the update pushed for player id.
UpdateOf(pl, id) ==
  [id |-> id, position |-> pl[id].position, rotation |-> pl[id].rotation]

\* tick(): the registry after the loop.
Cleaned(pl) == [id \in DOMAIN pl |-> [pl[id] EXCEPT !.dirty = FALSE]]

\* tick(): whether the broadcast callback is invoked.
Invokes(pl, updates) == DOMAIN pl # {} /\ updates # {}

\* tick(), with the callback startPlayerBroadcast() registers.
Tick ==
  LET updates == {UpdateOf(players, id) : id \in Collected(players)} IN
  /\ players' = Cleaned(players)
  /\ sent' = IF Invokes(players, updates)
             THEN Broadcast(clients, wsState,
                            Msg("player:batch_position", [updates |-> updates],
                                SERVER), NoExclude)
             ELSE <<>>
  /\ slast' = SLast("tick", 0, {}, {}, updates)
              @@ [called |-> Invokes(players, updates), before |-> touched]
  /\ firstSent' = FirstSentAfter(sent')
  /\ touched' = <<>>
  /\ UNCHANGED <<clients, isAlive, wsState, usedIds, pongSeen, acceptedSince>>

----------------------------------------------------------------------------
(***************************************************************************)
(* Part III.  PlayerManager, subscribed to a LoungeClient.                 *)
(***************************************************************************)
ManagerInit ==
  /\ localPlayerId = NoId
  /\ remotePlayers = {}
  /\ pushed = {}
  /\ inbox = [s \in SockIds |-> <<>>]
  /\ elast = "init"

\* The onStateChange subscription, run by setState(new) in state prev with
\* client.id = id: the local id and the remote players it leaves.
OnStateChange(prev, new, id, lp, rp) ==
  IF prev = new THEN [localPlayerId |-> lp, remotePlayers |-> rp]
  ELSE IF new = "connected" THEN [localPlayerId |-> id, remotePlayers |-> rp]
  ELSE IF new = "disconnected" THEN [localPlayerId |-> NoId, remotePlayers |-> {}]
  ELSE [localPlayerId |-> lp, remotePlayers |-> rp]

\* handleFullState(players): clearAllPlayers(), then every player but the
\* local one.
HandleFullState(list, lp) == {p.id : p \in list} \ {lp}

\* handlePlayerJoin(state)
HandlePlayerJoin(p, lp, rp) == IF p.id = lp THEN rp ELSE rp \cup {p.id}

\* handlePlayerLeave(id)
HandlePlayerLeave(id, rp) == rp \ {id}

\* handleBatchPositionUpdate(updates): the ids of the remote players whose
\* pushPositionUpdate() it calls.
Pushes(updates, lp, rp) == {u.id : u \in {v \in updates : v.id # lp /\ v.id \in rp}}

\* The envelope types PlayerManager subscribes to.
ManagerTypes ==
  {"player:state", "player:join", "player:leave", "player:batch_position"}

\* The envelopes of sends that go to socket s and that PlayerManager
\* handles.  (CONNECT travels as connectInFlight.)
ToSocket(sends, s) ==
  LET mine == SelectSeq(sends, LAMBDA e : e.to = AssignedId(s)
                                          /\ e.msg.type \in ManagerTypes)
  IN [k \in 1..Len(mine) |-> mine[k].msg]

\* The wire after a server callback.
Enqueue ==
  /\ inbox' = [s \in SockIds |-> inbox[s] \o ToSocket(sent', s)]
  /\ \A s \in SockIds : Len(inbox'[s]) <= MaxInbox

\* PlayerManager after a client step that may call setState().
ManagerFollows ==
  LET r == OnStateChange(state, state', clientId', localPlayerId,
                         remotePlayers) IN
  /\ localPlayerId' = r.localPlayerId
  /\ remotePlayers' = r.remotePlayers

\* connect() called by the application.
E2EConnect ==
  /\ Connect
  /\ ManagerFollows
  /\ elast' = "connect"
  /\ UNCHANGED <<serverVars, pushed, inbox>>

\* The reconnect timeout fires.
E2EReconnectFire ==
  /\ ReconnectFire
  /\ ManagerFollows
  /\ elast' = "reconnectFire"
  /\ UNCHANGED <<serverVars, pushed, inbox>>

\* The connection attempt of socket s fails before the server accepts it.
E2EFail(s) ==
  /\ sockStatus[s] = "connecting"
  /\ SocketClose(s, ABNORMAL)
  /\ ManagerFollows
  /\ elast' = "fail"
  /\ UNCHANGED <<serverVars, pushed, inbox>>

\* The server accepts socket s (connection handler) and the socket opens
\* (onopen), taken as one step.
E2EOpen(s) ==
  /\ SocketOpen(s)
  /\ Accept(AssignedId(s))
  /\ Enqueue
  /\ elast' = "open"
  /\ UNCHANGED <<localPlayerId, remotePlayers, pushed>>

\* socket.onmessage of socket s with CONNECT.
E2EConnectMsg(s) ==
  /\ ReceiveConnect(s)
  /\ ManagerFollows
  /\ elast' = "system:connect"
  /\ UNCHANGED <<serverVars, pushed, inbox>>

\* socket.onmessage of socket s with the next envelope PlayerManager
\* handles.
E2EDeliver(s) ==
  /\ sockStatus[s] = "open"
  /\ ~connectInFlight[s]
  /\ inbox[s] # <<>>
  /\ LET msg == Head(inbox[s]) IN
       /\ inbox' = [inbox EXCEPT ![s] = Tail(@)]
       /\ elast' = msg.type
       /\ remotePlayers' =
            CASE msg.type = "player:state" ->
                   HandleFullState(msg.payload.players, localPlayerId)
              [] msg.type = "player:join" ->
                   HandlePlayerJoin(msg.payload, localPlayerId, remotePlayers)
              [] msg.type = "player:leave" ->
                   HandlePlayerLeave(msg.payload.id, remotePlayers)
              [] OTHER -> remotePlayers
       /\ pushed' =
            IF msg.type = "player:batch_position"
            THEN Pushes(msg.payload.updates, localPlayerId, remotePlayers)
            ELSE pushed
  /\ UNCHANGED <<configVars, clientVars, envVars, obsVars, serverVars,
                 localPlayerId>>

\* sendPositionUpdate() of PlayerManager with the local position p, and
\* handleMessage() of the server for the frame, taken as one step.
E2EPosition(p) ==
  /\ localPlayerId # NoId
  /\ state = "connected"
  /\ CanSend(state, socket, clientId)
  /\ SocketSend(sockStatus[socket]) = "sent"
  /\ Send
  /\ Receive(AssignedId(socket),
             [raw |-> WellFormed, type |-> "player:position",
              payload |-> [id |-> localPlayerId, position |-> p,
                           rotation |-> p],
              senderId |-> clientId])
  /\ Enqueue
  /\ elast' = "position"
  /\ UNCHANGED <<localPlayerId, remotePlayers, pushed>>

\* PlayerRegistry.tick() on the server.
E2ETick ==
  /\ Tick
  /\ Enqueue
  /\ elast' = "tick"
  /\ UNCHANGED <<configVars, clientVars, envVars, obsVars, localPlayerId,
                 remotePlayers, pushed>>

(***************************************************************************)
(* Part X.  PresenceManager.players on a LoungeClient that talks to        *)
(* LoungeServer while a peer joins, leaves and is swept.  A peer takes an  *)
(* id no live socket of the client stands for.  A browser hands a message  *)
(* to onmessage only while the socket is OPEN, so what is on the wire to a *)
(* socket that left OPEN is lost.  The application calls connect() and    *)
(* never disconnect().                                                     *)
(***************************************************************************)
\* new PresenceManager(client)
RosterInit == presencePlayers = {}

\* id can be the session of a peer: no socket of the client is connected
\* or connecting as id.
RosterPeer(id) == ~Live(id) /\ sockStatus[id] # "closing"

\* The PLAYER_STATE handler: players.clear(), then every player of the list.
PresenceFullState(list, pp) == {p.id : p \in list}

\* The PLAYER_JOIN handler
PresenceJoin(p, pp) == pp \cup {p.id}

\* The PLAYER_LEAVE handler
PresenceLeave(id, pp) == pp \ {id}

\* The onStateChange handler, run by setState(new) in state prev.
PresenceCleared(prev, new, pp) ==
  IF prev # new /\ new = "disconnected" THEN {} ELSE pp

\* The envelope types that change the keys of PresenceManager.players.
PresenceTypes == {"player:state", "player:join", "player:leave"}

\* The envelopes of sends that go to socket s and change the keys.
PresenceToSocket(sends, s) ==
  LET mine == SelectSeq(sends, LAMBDA e : e.to = AssignedId(s)
                                          /\ e.msg.type \in PresenceTypes)
  IN [k \in 1..Len(mine) |-> mine[k].msg]

\* The wire after a step: what the server sent is added for the sockets of
\* the client that are OPEN.
RosterWire(sends) ==
  /\ inbox' = [s \in SockIds |->
                 IF sockStatus'[s] = "open"
                 THEN inbox[s] \o PresenceToSocket(sends, s)
                 ELSE <<>>]
  /\ \A s \in SockIds : Len(inbox'[s]) <= MaxInbox

\* A step of the client alone, with the onStateChange handler of the
\* manager.
RosterClientStep ==
  /\ presencePlayers' = PresenceCleared(state, state', presencePlayers)
  /\ RosterWire(<<>>)
  /\ UNCHANGED <<serverVars, localPlayerId, remotePlayers, pushed, elast,
                 dispatchVars, backoffVars, interpVars, presenceVars,
                 chatVars, protocolVars, lifeVars>>

\* A callback of the server.
RosterServerStep ==
  /\ UNCHANGED <<configVars, clientVars, envVars, obsVars, localPlayerId,
                 remotePlayers, pushed, elast, dispatchVars, unitVars>>
  /\ RosterWire(sent')

\* connect() called by the application.
RosterConnect == Connect /\ RosterClientStep

\* The server accepts socket s and the socket opens.
RosterOpen(s) ==
  /\ SocketOpen(s)
  /\ Accept(AssignedId(s))
  /\ RosterWire(sent')
  /\ UNCHANGED <<localPlayerId, remotePlayers, pushed, elast, dispatchVars,
                 unitVars>>

\* socket.onmessage of socket s with the next envelope the manager handles.
RosterDeliver(s) ==
  /\ sockStatus[s] = "open"
  /\ ~connectInFlight[s]
  /\ inbox[s] # <<>>
  /\ LET msg == Head(inbox[s]) IN
       presencePlayers' =
         CASE msg.type = "player:state" ->
                PresenceFullState(msg.payload.players, presencePlayers)
           [] msg.type = "player:join" ->
                PresenceJoin(msg.payload, presencePlayers)
           [] msg.type = "player:leave" ->
                PresenceLeave(msg.payload.id, presencePlayers)
  /\ inbox' = [inbox EXCEPT ![s] = Tail(@)]
  /\ UNCHANGED <<configVars, clientVars, envVars, obsVars, serverVars,
                 localPlayerId, remotePlayers, pushed, elast, dispatchVars,
                 backoffVars, interpVars, presenceVars, chatVars,
                 protocolVars, lifeVars>>

RosterNext ==
  \/ RosterConnect
  \/ ReconnectFire /\ RosterClientStep
  \/ \E s \in SockIds : RosterOpen(s)
  \/ \E s \in SockIds : ReceiveConnect(s) /\ RosterClientStep
  \/ \E s \in SockIds : RosterDeliver(s)
  \/ \E s \in SockIds, code \in CloseCodes :
       SocketClose(s, code) /\ RosterClientStep
  \/ \E id \in Ids : RosterPeer(id) /\ Accept(id) /\ RosterServerStep
  \/ \E id \in Ids : PongFrame(id) /\ RosterServerStep
  \/ \E id \in Ids : ~Live(id) /\ PeerClose(id) /\ RosterServerStep
  \/ \E id \in Ids : CloseEvent(id) /\ RosterServerStep
  \/ Sweep /\ RosterServerStep

----------------------------------------------------------------------------
(***************************************************************************)
(* Specifications.  Spec runs one LoungeClient against its sockets;        *)
(* ServerSpec runs LoungeServer against the sockets it accepts; E2ESpec    *)
(* runs one LoungeClient with its PlayerManager against LoungeServer, with *)
(* automatic reconnection configured.                                      *)
(***************************************************************************)
(***************************************************************************)
(* Part IV.  The subscriptions of LoungeClient and the dispatch of the     *)
(* envelopes it receives.                                                  *)
(***************************************************************************)

\* The handler functions the application registers.  A handler is known by
\* its identity, as in a JavaScript Set.
Handlers == {"f", "g"}

\* The handlers that throw when they are called.
Throwing == {"g"}

\* The keys used with on(type, handler); onMessage uses '*'.
SubTypes == {"chat:message", "system:connect", "*"}

\* The key under which subs records a state change registration.
StateKey == "state"

\* Registrations made in a run.
MaxSubs == 2

NoCalls == [k \in SubTypes |-> [h \in Handlers |-> 0]]

NoStateCalls == [h \in Handlers |-> 0]

\* What a client step did to the subscribers: the envelope it handled (type
\* "none" when it handled none), how often it called each handler found
\* under each key, how often each state change handler, how many
\* exceptions of handlers it caught, and whether one left the step.
DLast(op, msg, calls, stateCalls, caught, escaped) ==
  [op |-> op, msg |-> msg, calls |-> calls, stateCalls |-> stateCalls,
   caught |-> caught, escaped |-> escaped]

NoMsg == [type |-> "none", payload |-> [none |-> 0], senderId |-> 0]

DispatchInit ==
  /\ messageHandlers = [k \in SubTypes |-> {}]
  /\ stateChangeHandlers = {}
  /\ subs = <<>>
  /\ dlast = DLast("init", NoMsg, NoCalls, NoStateCalls, 0, FALSE)

\* on(type, handler): Set.add, and the closure returned.
On(type, handler) ==
  /\ Len(subs) < MaxSubs
  /\ messageHandlers' = [messageHandlers EXCEPT ![type] = @ \cup {handler}]
  /\ subs' = Append(subs, [key |-> type, handler |-> handler,
                           called |-> FALSE])
  /\ dlast' = DLast("on", NoMsg, NoCalls, NoStateCalls, 0, FALSE)
  /\ UNCHANGED stateChangeHandlers

\* onMessage(handler)
OnMessage(handler) == On("*", handler)

\* LoungeClient.onStateChange(handler)
ClientOnStateChange(handler) ==
  /\ Len(subs) < MaxSubs
  /\ stateChangeHandlers' = stateChangeHandlers \cup {handler}
  /\ subs' = Append(subs, [key |-> StateKey, handler |-> handler,
                           called |-> FALSE])
  /\ dlast' = DLast("onStateChange", NoMsg, NoCalls, NoStateCalls, 0, FALSE)
  /\ UNCHANGED messageHandlers

\* The closure returned by the i-th registration is called: Set.delete of
\* the handler it captured, in the set of the key it captured.
Unsubscribe(i) ==
  /\ i \in 1..Len(subs)
  /\ IF subs[i].key = StateKey
     THEN /\ stateChangeHandlers' = stateChangeHandlers \ {subs[i].handler}
          /\ UNCHANGED messageHandlers
     ELSE /\ messageHandlers' =
               [messageHandlers EXCEPT ![subs[i].key] = @ \ {subs[i].handler}]
          /\ UNCHANGED stateChangeHandlers
  /\ subs' = [subs EXCEPT ![i].called = TRUE]
  /\ dlast' = DLast("unsubscribe", NoMsg, NoCalls, NoStateCalls, 0, FALSE)
          @@ [sub |-> i, again |-> subs[i].called]

\* for (const handler of handlers) { try { handler(..) } catch {..} }: the
\* handlers of the set that are called.
Invoked(hs) == hs

\* this.messageHandlers.get(type): the empty set stands for undefined.
HandlersOf(mh, type) == IF type \in DOMAIN mh THEN mh[type] ELSE {}

\* handleMessage, both dispatch loops: how often it calls each handler
\* found under each key.
MessageCalls(mh, msg) ==
  LET typed == Invoked(HandlersOf(mh, msg.type))
      wild == IF StartsWith(msg.type, "system:") THEN {}
              ELSE Invoked(HandlersOf(mh, "*"))
  IN [k \in SubTypes |-> [h \in Handlers |->
        (IF k = msg.type /\ h \in typed THEN 1 ELSE 0)
        + (IF k = "*" /\ h \in wild THEN 1 ELSE 0)]]

\* setState(newState): how often it calls each state change handler.
StateCalls(sh, prev, new) ==
  [h \in Handlers |-> IF prev # new /\ h \in Invoked(sh) THEN 1 ELSE 0]

\* The exceptions the try/catch blocks of the loops caught.
Caught(calls, stateCalls) ==
  LET n(h) == stateCalls[h]
              + calls["chat:message"][h] + calls["system:connect"][h]
              + calls["*"][h]
  IN IF "g" \in Throwing THEN n("g") ELSE 0

\* handleMessage(msg) throws: the CONNECT case reads payload.clientId of a
\* null payload.
ClientThrows(msg) ==
  /\ ~IsNull(msg)
  /\ msg.type = "system:connect"
  /\ msg.payload = NullPayload

\* The envelopes a client socket can receive: the server's own and what
\* the server forwards for other clients.
InboundFrames ==
  {[raw |-> RawShape("malformed", "absent", "absent", "absent", "absent"),
    type |-> "", payload |-> [none |-> 0], senderId |-> 0]}
  \cup {[raw |-> WellFormed, type |-> "system:connect",
         payload |-> [clientId |-> 1], senderId |-> 0]}
  \cup {[raw |-> WithNullPayload, type |-> "system:connect",
         payload |-> NullPayload, senderId |-> 0]}
  \cup {[raw |-> WellFormed, type |-> t, payload |-> [data |-> 1],
         senderId |-> 0] :
           t \in {"system:pong", "chat:message", "custom:event", "*"}}

\* socket.onmessage of socket s: parseMessage, then handleMessage.
OnMessageEvent(s, frame) ==
  LET msg == ParseMessage(frame)
      connect == msg.type = "system:connect"
      pong == msg.type = "system:pong"
  IN
  /\ sockStatus[s] = "open"
  /\ IF IsNull(msg) \/ ClientThrows(msg)
     THEN /\ dlast' = DLast("message", msg, NoCalls, NoStateCalls, 0,
                            ClientThrows(msg)) @@ [raw |-> frame.raw]
          /\ UNCHANGED <<clientId, state, heartbeatTimer,
                         heartbeatTimeoutTimer>>
     ELSE /\ clientId' = IF connect THEN msg.payload.clientId ELSE clientId
          /\ state' = IF connect THEN "connected" ELSE state
          /\ heartbeatTimer' = IF connect THEN TRUE ELSE heartbeatTimer
          /\ heartbeatTimeoutTimer' =
               IF connect THEN "null"
               ELSE IF pong THEN PongClears(heartbeatTimeoutTimer)
               ELSE heartbeatTimeoutTimer
          /\ LET calls == MessageCalls(messageHandlers, msg)
                 stateCalls == StateCalls(stateChangeHandlers, state, state')
             IN dlast' = DLast("message", msg, calls, stateCalls,
                               Caught(calls, stateCalls), FALSE)
                         @@ [raw |-> frame.raw]
  /\ last' = Last("message", s, 0, "none", clientId')
  /\ UNCHANGED <<configVars, socket, reconnectAttempts, reconnectTimer,
                 pingSeq, envVars, pongSincePing, autoAttempts,
                 messageHandlers, stateChangeHandlers, subs>>

\* A step of LoungeClient that reaches the subscribers only through
\* setState.
StateChangeStep(op) ==
  /\ LET stateCalls == StateCalls(stateChangeHandlers, state, state')
     IN dlast' = DLast(op, NoMsg, NoCalls, stateCalls,
                       Caught(NoCalls, stateCalls), FALSE)
  /\ UNCHANGED <<messageHandlers, stateChangeHandlers, subs>>

DispatchFrame == UNCHANGED <<serverVars, managerVars, unitVars>>

SubscribeFrame ==
  UNCHANGED <<configVars, clientVars, envVars, obsVars, serverVars,
              managerVars, unitVars>>

DispatchNext ==
  \/ Connect /\ StateChangeStep("connect") /\ DispatchFrame
  \/ Disconnect /\ StateChangeStep("disconnect") /\ DispatchFrame
  \/ \E s \in SockIds :
       SocketOpen(s) /\ StateChangeStep("open") /\ DispatchFrame
  \/ \E s \in SockIds, frame \in InboundFrames :
       OnMessageEvent(s, frame) /\ DispatchFrame
  \/ \E t \in SubTypes, h \in Handlers : On(t, h) /\ SubscribeFrame
  \/ \E h \in Handlers : OnMessage(h) /\ SubscribeFrame
  \/ \E h \in Handlers : ClientOnStateChange(h) /\ SubscribeFrame
  \/ \E i \in 1..MaxSubs : Unsubscribe(i) /\ SubscribeFrame

----------------------------------------------------------------------------
(***************************************************************************)
(* A LoungeClient without subscribers as one session of the server, next   *)
(* to the session of a peer that sends what it likes.  The client makes    *)
(* one connection, on its first socket.                                    *)
(***************************************************************************)
\* The ids of the sessions of peers.
PeerIds == Ids \ {AssignedId(1)}

\* The envelopes of sends that go to socket s of the client.  (The CONNECT
\* of the accept handler travels as connectInFlight.)
Forwarded(sends, s, accepted) ==
  LET mine == SelectSeq(sends, LAMBDA e :
                 /\ e.to = AssignedId(s)
                 /\ ~(accepted /\ e.msg.type = "system:connect"))
  IN [k \in 1..Len(mine) |-> mine[k].msg]

\* The wire after a server callback.
ForgeEnqueue(accepted) ==
  /\ inbox' = [s \in SockIds |->
                 IF AssignedId(s) \in PeerIds THEN inbox[s]
                 ELSE inbox[s] \o Forwarded(sent', s, accepted)]
  /\ \A s \in SockIds : Len(inbox'[s]) <= MaxInbox

\* The text frame of an envelope the server has serialized.
FrameOf(msg) ==
  [raw |-> WellFormed, type |-> msg.type, payload |-> msg.payload,
   senderId |-> msg.senderId]

\* What a peer sends: CONNECT envelopes naming an id, as the server would
\* send them, and envelopes of a type of the application.
ForgeFrames ==
  {[raw |-> WellFormed, type |-> "system:connect",
    payload |-> [clientId |-> c], senderId |-> SERVER] : c \in Ids}
  \cup {[raw |-> WellFormed, type |-> "custom:event",
         payload |-> [data |-> 1], senderId |-> 1]}

ForgeClientFrame ==
  UNCHANGED <<serverVars, managerVars, dispatchVars, unitVars>>

\* connect() called by the application, once.
ForgeConnect == nextSock = 1 /\ Connect /\ ForgeClientFrame

\* The server accepts socket s and the socket opens.
ForgeOpen(s) ==
  /\ SocketOpen(s)
  /\ Accept(AssignedId(s))
  /\ ForgeEnqueue(TRUE)
  /\ UNCHANGED <<localPlayerId, remotePlayers, pushed, elast, dispatchVars,
                 unitVars>>

\* The server accepts the connection of a peer.
PeerAccept(id) ==
  /\ id \in PeerIds
  /\ Accept(id)
  /\ ForgeEnqueue(TRUE)
  /\ UNCHANGED <<configVars, clientVars, envVars, obsVars, localPlayerId,
                 remotePlayers, pushed, elast, dispatchVars, unitVars>>

\* The server handles a text frame of a peer.
PeerSend(id, frame) ==
  /\ id \in PeerIds
  /\ Receive(id, frame)
  /\ ForgeEnqueue(FALSE)
  /\ UNCHANGED <<configVars, clientVars, envVars, obsVars, localPlayerId,
                 remotePlayers, pushed, elast, dispatchVars, unitVars>>

\* socket.onmessage of socket s with the next envelope on the wire.
ForgeDeliver(s) ==
  /\ ~connectInFlight[s]
  /\ inbox[s] # <<>>
  /\ OnMessageEvent(s, FrameOf(Head(inbox[s])))
  /\ inbox' = [inbox EXCEPT ![s] = Tail(@)]
  /\ UNCHANGED <<serverVars, localPlayerId, remotePlayers, pushed, elast,
                 unitVars>>

ForgeNext ==
  \/ ForgeConnect
  \/ \E s \in SockIds : ForgeOpen(s)
  \/ \E s \in SockIds : ReceiveConnect(s) /\ ForgeClientFrame
  \/ HeartbeatTick /\ ForgeClientFrame
  \/ \E s \in SockIds : ReceivePong(s) /\ ForgeClientFrame
  \/ \E id \in Ids : PeerAccept(id)
  \/ \E id \in Ids, frame \in ForgeFrames : PeerSend(id, frame)
  \/ \E s \in SockIds : ForgeDeliver(s)

(***************************************************************************)
(* Part V.  RemotePlayer (lib/player/RemotePlayer.ts) and Avatar            *)
(* (lib/avatar/Avatar.ts): the snapshot buffer and the interpolation        *)
(* target.  Both classes keep the same buffer and compute the same target;  *)
(* one component stands for the three of a vector, which the code treats    *)
(* alike.  Numbers are exact: a target is a fraction num/den, and den = 0   *)
(* is NaN.  The mesh, which update() moves towards the target, is read by   *)
(* none of the code modelled and is left out.                               *)
(***************************************************************************)
INTERPOLATION_DELAY == 100
CleanupWindow == 1000
StampStep == 50

\* The timestamps a snapshot can carry.
Stamps == {k * StampStep : k \in 0..MaxStamp}

\* The values of Date.now(): render times on the timestamps, and one late
\* enough for update() to drop snapshots.
Clock ==
  {INTERPOLATION_DELAY + s : s \in Stamps}
    \cup {INTERPOLATION_DELAY + CleanupWindow + MaxStamp * StampStep}

Snapshots ==
  [position : Coords, rotation : Coords, timestamp : Stamps]

Frac(n, d) == [num |-> n, den |-> d]
NaN == Frac(0, 0)
IsNaN(q) == q.den = 0

\* Math.max
Max(a, b) == IF a >= b THEN a ELSE b

PushPositionUpdate_KeepsOldest(buffer, update) ==
  IF Len(buffer) >= MaxBufferSize THEN buffer ELSE Append(buffer, update)

\* pushPositionUpdate(update): push, then shift while the buffer is longer
\* than the capacity.
PushPositionUpdate(buffer, update) ==
  LET pushed_ == Append(buffer, update) IN
  IF Len(pushed_) > MaxBufferSize
  THEN SubSeq(pushed_, Len(pushed_) - MaxBufferSize + 1, Len(pushed_))
  ELSE pushed_

\* update(): the index of the first adjacent pair that brackets renderTime,
\* 0 when the loop ends without one.
FirstBracket(buffer, renderTime) ==
  LET I == {i \in 1..(Len(buffer) - 1) :
              /\ buffer[i].timestamp <= renderTime
              /\ buffer[i + 1].timestamp >= renderTime} IN
  IF I = {} THEN 0 ELSE CHOOSE i \in I : \A j \in I : i <= j

\* Math.min(1, Math.max(0, elapsed / duration)) for duration >= 0; 0 / 0 is
\* NaN, which Math.max and Math.min return.
Factor(elapsed, duration) ==
  IF duration = 0 THEN NaN
  ELSE Frac(Min(duration, Max(0, elapsed)), duration)

MathLerp_FromNext(x, y, t) ==
  IF IsNaN(t) THEN NaN
  ELSE Frac((t.den - t.num) * y + t.num * x, t.den)

\* THREE.MathUtils.lerp(x, y, t): (1 - t) * x + t * y.
MathLerp(x, y, t) ==
  IF IsNaN(t) THEN NaN
  ELSE Frac((t.den - t.num) * x + t.num * y, t.den)

UpdateTarget_Extrapolates(buffer, renderTime, target, c) ==
  IF Len(buffer) >= 1 THEN Frac(buffer[Len(buffer)][c], 1) ELSE target

\* update(): the target of component c ("position" or "rotation") it leaves.
UpdateTarget(buffer, renderTime, target, c) ==
  IF Len(buffer) >= 2
  THEN LET i == FirstBracket(buffer, renderTime) IN
       IF i = 0 THEN target
       ELSE LET prev == buffer[i]
                next == buffer[i + 1]
                duration == next.timestamp - prev.timestamp
                elapsed == renderTime - prev.timestamp
            IN MathLerp(prev[c], next[c], Factor(elapsed, duration))
  ELSE IF Len(buffer) = 1 THEN Frac(buffer[1][c], 1)
  ELSE target

\* update(): the buffer after the loop that drops the old snapshots from
\* the front.
RECURSIVE CleanUp(_, _)
CleanUp(buffer, renderTime) ==
  IF Len(buffer) > 0 /\ buffer[1].timestamp < renderTime - CleanupWindow
  THEN CleanUp(Tail(buffer), renderTime)
  ELSE buffer

\* new RemotePlayer(state): the target is the position and rotation of the
\* state, the buffer is empty.  ilast records a call: the render time, the
\* length of the buffer it found and the pair update() chose (0: none); its
\* field received holds the last snapshot pushed so far, if any.
InterpInit ==
  /\ positionBuffer = <<>>
  /\ targetPosition = Frac(0, 1)
  /\ targetRotation = Frac(0, 1)
  /\ now = INTERPOLATION_DELAY
  /\ ilast = [op |-> "init", renderTime |-> 0, size |-> 0, pair |-> 0,
              received |-> <<>>]

\* pushPositionUpdate(update)
Push(update) ==
  /\ positionBuffer' = PushPositionUpdate(positionBuffer, update)
  /\ ilast' = [op |-> "push", renderTime |-> 0,
               size |-> Len(positionBuffer), pair |-> 0, update |-> update,
               received |-> <<update>>]
  /\ UNCHANGED <<targetPosition, targetRotation, now>>

\* update(deltaTime) at the time t.
Update(t) ==
  LET renderTime == t - INTERPOLATION_DELAY IN
  /\ t >= now
  /\ now' = t
  /\ targetPosition' =
       UpdateTarget(positionBuffer, renderTime, targetPosition, "position")
  /\ targetRotation' =
       UpdateTarget(positionBuffer, renderTime, targetRotation, "rotation")
  /\ positionBuffer' = CleanUp(positionBuffer, renderTime)
  /\ ilast' = [op |-> "update", renderTime |-> renderTime,
               size |-> Len(positionBuffer),
               pair |-> FirstBracket(positionBuffer, renderTime),
               received |-> ilast.received]

InterpFrame ==
  UNCHANGED <<mainVars, backoffVars, presenceVars, chatVars, protocolVars,
              rosterVars,
              lifeVars>>

InterpNext ==
  \/ \E update \in Snapshots : Push(update) /\ InterpFrame
  \/ \E t \in Clock : Update(t) /\ InterpFrame

(***************************************************************************)
(* Part VI.  PresenceManager on a LoungeClient: the derived status of the  *)
(* local player and the typing indicator.  Time is the time since the last *)
(* input and the time left on the typing timeout; both move when time      *)
(* passes.  The interval of checkIdleStatus() can fire at any moment: its  *)
(* phase is independent of the moment of the last input.                   *)
(***************************************************************************)
IDLE_TIMEOUT == 60000
AWAY_TIMEOUT == 300000
TYPING_TIMEOUT == 3000

\* The time that can pass in one step of a run that watches the status, and
\* of one that watches the typing indicator.
IdleSteps == {IdleStep, AWAY_TIMEOUT - IDLE_TIMEOUT}
TypingSteps == {TypingStep}

\* An envelope PresenceManager hands to client.send().
StatusChange(id, status) ==
  [type |-> "player:status_change", id |-> id, status |-> status]
Typing(id, isTyping) ==
  [type |-> "player:typing", id |-> id, isTyping |-> isTyping]

\* client.send(type, payload): the envelopes that reach the socket.  send()
\* returns false without sending unless the client is connected; a socket
\* that is not OPEN drops or rejects the data.
ClientSends(envelope) ==
  IF CanSend(state, socket, clientId) /\ SocketSend(sockStatus[socket]) = "sent"
  THEN <<envelope>> ELSE <<>>

PLast(op, sent_) == [op |-> op, sent |-> sent_]

\* new PresenceManager(client): status active, not typing, the interval of
\* the idle check armed, the handlers registered.
PresenceInit ==
  /\ presenceId = NoId
  /\ localStatus = "active"
  /\ localIsTyping = FALSE
  /\ idleTimer = TRUE
  /\ typingTimer = "null"
  /\ typingLeft = 0
  /\ sinceInput = 0
  /\ attached = TRUE
  /\ sinceKey = TYPING_TIMEOUT
  /\ plast = PLast("init", <<>>)

\* checkIdleStatus(): the status derived from the time since the last input.
DerivedStatus(e) ==
  IF e >= AWAY_TIMEOUT THEN "away"
  ELSE IF e >= IDLE_TIMEOUT THEN "idle"
  ELSE "active"

\* updateLocalStatus(status): what it sends.
UpdateLocalStatus(status) ==
  IF state = "connected" /\ presenceId # NoId
  THEN ClientSends(StatusChange(presenceId, status))
  ELSE <<>>

\* The interval callback: checkIdleStatus().
CheckIdleStatus ==
  LET newStatus == DerivedStatus(sinceInput) IN
  /\ idleTimer
  /\ IF newStatus # localStatus
     THEN /\ localStatus' = newStatus
          /\ plast' = PLast("check", UpdateLocalStatus(newStatus))
     ELSE /\ localStatus' = localStatus
          /\ plast' = PLast("check", <<>>)
  /\ UNCHANGED <<presenceId, localIsTyping, idleTimer, typingTimer,
                 typingLeft, sinceInput, attached, sinceKey>>

\* handleUserInput, the document listener: recordActivity().
RecordActivity ==
  /\ attached
  /\ sinceInput' = 0
  /\ IF localStatus # "active"
     THEN /\ localStatus' = "active"
          /\ plast' = PLast("input", UpdateLocalStatus("active"))
     ELSE /\ localStatus' = localStatus
          /\ plast' = PLast("input", <<>>)
  /\ UNCHANGED <<presenceId, localIsTyping, idleTimer, typingTimer,
                 typingLeft, attached, sinceKey>>

\* setTyping(isTyping): the fields it leaves and what it sends.
SetTypingBody(isTyping, op) ==
  IF localIsTyping = isTyping
  THEN /\ plast' = PLast(op, <<>>)
       /\ UNCHANGED <<localIsTyping, typingTimer, typingLeft>>
  ELSE /\ localIsTyping' = isTyping
       /\ plast' = PLast(op, ClientSends(Typing(presenceId, isTyping)))
       /\ typingTimer' = IF isTyping THEN "pending" ELSE "null"
       /\ typingLeft' = IF isTyping THEN TYPING_TIMEOUT ELSE 0

\* setTyping(isTyping) called by the application (the chat input).
SetTyping(isTyping) ==
  /\ SetTypingBody(isTyping, IF isTyping THEN "typing" ELSE "notTyping")
  /\ sinceKey' = IF isTyping THEN 0 ELSE sinceKey
  /\ UNCHANGED <<presenceId, localStatus, idleTimer, sinceInput, attached>>

\* The typing timeout is due: its callback calls setTyping(false).
TypingTimeout ==
  /\ typingTimer = "pending" /\ typingLeft = 0
  /\ SetTypingBody(FALSE, "autoClear")
  /\ UNCHANGED <<presenceId, localStatus, idleTimer, sinceInput, attached,
                 sinceKey>>

\* d milliseconds pass; no timeout is overdue.
Advance(d) ==
  /\ typingTimer = "pending" => d <= typingLeft
  /\ sinceInput' = Min(sinceInput + d, AWAY_TIMEOUT)
  /\ typingLeft' = IF typingTimer = "pending" THEN typingLeft - d ELSE 0
  /\ sinceKey' = Min(sinceKey + d, TYPING_TIMEOUT)
  /\ plast' = PLast("advance", <<>>)
  /\ UNCHANGED <<presenceId, localStatus, localIsTyping, idleTimer,
                 typingTimer, attached>>

\* The onStateChange handler of the manager, run by setState() of the client
\* step: the local id follows the client on 'connected' and is dropped on
\* 'disconnected'.
PresenceOnState(op) ==
  /\ presenceId' = IF state' = state THEN presenceId
                   ELSE IF state' = "connected" THEN clientId'
                   ELSE IF state' = "disconnected" THEN NoId
                   ELSE presenceId
  /\ plast' = PLast(op, <<>>)
  /\ UNCHANGED <<localStatus, localIsTyping, idleTimer, typingTimer,
                 typingLeft, sinceInput, attached, sinceKey>>

\* The steps of the manager leave the client as it is.
ManagerFrame ==
  UNCHANGED <<mainVars, backoffVars, interpVars, chatVars, protocolVars,
              rosterVars,
              lifeVars>>

ClientSideFrame ==
  UNCHANGED <<serverVars, managerVars, dispatchVars, backoffVars, interpVars,
              chatVars, protocolVars, rosterVars,
              lifeVars>>

\* The client under a PresenceManager.
PresenceClient ==
  \/ Connect /\ PresenceOnState("connect") /\ ClientSideFrame
  \/ Disconnect /\ PresenceOnState("disconnect") /\ ClientSideFrame
  \/ ReconnectFire /\ PresenceOnState("reconnectFire") /\ ClientSideFrame
  \/ \E s \in SockIds : SocketOpen(s) /\ PresenceOnState("open") /\ ClientSideFrame
  \/ \E s \in SockIds :
       ReceiveConnect(s) /\ PresenceOnState("receiveConnect") /\ ClientSideFrame
  \/ \E s \in SockIds, code \in CloseCodes :
       SocketClose(s, code) /\ PresenceOnState("close") /\ ClientSideFrame

PresenceNext ==
  \/ PresenceClient
  \/ CheckIdleStatus /\ ManagerFrame
  \/ RecordActivity /\ ManagerFrame
  \/ \E d \in IdleSteps : Advance(d) /\ ManagerFrame

\* The client of the typing runs: it connects, and its socket can close.
TypingClient ==
  \/ Connect /\ PresenceOnState("connect") /\ ClientSideFrame
  \/ \E s \in SockIds : SocketOpen(s) /\ PresenceOnState("open") /\ ClientSideFrame
  \/ \E s \in SockIds :
       ReceiveConnect(s) /\ PresenceOnState("receiveConnect") /\ ClientSideFrame
  \/ \E s \in SockIds, code \in CloseCodes :
       SocketClose(s, code) /\ PresenceOnState("close") /\ ClientSideFrame

TypingNext ==
  \/ TypingClient
  \/ \E isTyping \in BOOLEAN : SetTyping(isTyping) /\ ManagerFrame
  \/ TypingTimeout /\ ManagerFrame
  \/ \E d \in TypingSteps :
       sinceInput < TypingHorizon /\ Advance(d) /\ ManagerFrame

(***************************************************************************)
(* Part VII.  ChatManager (lib/chat): send(input) and the parsing of chat  *)
(* commands.  A text is a sequence of characters.                          *)
(***************************************************************************)
\* The characters \s matches and trim() removes, among those of the model.
IsWs(c) == c \in {" ", "\t"}

\* String.trim()
RECURSIVE TrimStart(_)
TrimStart(s) ==
  IF s # <<>> /\ IsWs(Head(s)) THEN TrimStart(Tail(s)) ELSE s

RECURSIVE TrimEnd(_)
TrimEnd(s) ==
  IF s # <<>> /\ IsWs(s[Len(s)]) THEN TrimEnd(SubSeq(s, 1, Len(s) - 1))
  ELSE s

Trim_Nothing(s) == s

Trim(s) == TrimEnd(TrimStart(s))

\* String.toLowerCase() on the letters of the model.
UpperCase == <<"E", "H", "I", "L", "P", "R", "S", "T", "W">>
LowerCase == <<"e", "h", "i", "l", "p", "r", "s", "t", "w">>

LowerChar(c) ==
  IF \E k \in 1..Len(UpperCase) : UpperCase[k] = c
  THEN LowerCase[CHOOSE k \in 1..Len(UpperCase) : UpperCase[k] = c]
  ELSE c

Lower(s) == [i \in 1..Len(s) |-> LowerChar(s[i])]

\* String.split(/\s+/): the parts between the runs of whitespace; a text
\* that starts or ends with whitespace has an empty first or last part.
RECURSIVE SplitFrom(_, _, _)
SplitFrom(s, parts, part) ==
  IF s = <<>> THEN Append(parts, part)
  ELSE IF IsWs(Head(s))
       THEN SplitFrom(TrimStart(s), Append(parts, part), <<>>)
       ELSE SplitFrom(Tail(s), parts, Append(part, Head(s)))

Split(s) == SplitFrom(s, <<>>, <<>>)

\* Array.join(' ')
RECURSIVE Join(_)
Join(parts) ==
  IF parts = <<>> THEN <<>>
  ELSE IF Len(parts) = 1 THEN parts[1]
  ELSE parts[1] \o <<" ">> \o Join(Tail(parts))

\* CommandResult; "undefined" is the error of a call that was handled.
Reply(handled, error) == [handled |-> handled, error |-> error]

\* What a call did: its result, the envelopes that reached the socket, the
\* messages it added to the history and the whispers it handed to
\* sendWhisper().
Outcome(result, sent_, local) ==
  [result |-> result, sent |-> sent_, local |-> local, whispers |-> <<>>]

\* client.send(type, payload) from ChatManager: false when the client is
\* not ready to send; a socket that is still CONNECTING throws.
ChatClientSend(envelope, failed) ==
  IF ~CanSend(state, socket, clientId)
  THEN Outcome(Reply(FALSE, failed), <<>>, <<>>)
  ELSE IF SocketSend(sockStatus[socket]) = "throw"
  THEN Outcome(Reply(FALSE, "threw"), <<>>, <<>>)
  ELSE Outcome(Reply(TRUE, "undefined"), ClientSends(envelope), <<>>)

\* sendChat(content)
SendChat(content) ==
  IF state # "connected"
  THEN Outcome(Reply(FALSE, "Not connected"), <<>>, <<>>)
  ELSE ChatClientSend([type |-> "chat:send", content |-> content],
                      "Failed to send")

\* sendWhisper(targetName, content)
SendWhisper(targetName, content) ==
  IF state # "connected"
  THEN Outcome(Reply(FALSE, "Not connected"), <<>>, <<>>)
  ELSE IF Trim(targetName) = <<>>
  THEN Outcome(Reply(FALSE, "No target specified"), <<>>, <<>>)
  ELSE IF Trim(content) = <<>>
  THEN Outcome(Reply(FALSE, "No message content"), <<>>, <<>>)
  ELSE ChatClientSend([type |-> "chat:whisper",
                       targetName |-> Trim(targetName),
                       content |-> Trim(content)],
                      "Failed to send whisper")

\* sendEmote(action)
SendEmote(action) ==
  IF state # "connected"
  THEN Outcome(Reply(FALSE, "Not connected"), <<>>, <<>>)
  ELSE IF Trim(action) = <<>>
  THEN Outcome(Reply(FALSE, "No action specified"), <<>>, <<>>)
  ELSE ChatClientSend([type |-> "chat:emote", action |-> Trim(action)],
                      "Failed to send emote")

\* The message handleCommand builds for /help.
HelpMessage == [senderId |-> "local", senderName |-> "Help", type |-> "system"]

WhisperContent_WithTarget(args) == Join(args)

\* handleCommand, the whisper case: the message.
WhisperContent(args) == Join(Tail(args))

\* handleCommand(input)
HandleCommand(input) ==
  LET parts == Split(Tail(input))
      command == Lower(parts[1])
      args == Tail(parts)
  IN CASE command = <<"m", "e">> ->
            IF Join(args) = <<>>
            THEN Outcome(Reply(FALSE, "Usage: /me <action>"), <<>>, <<>>)
            ELSE SendEmote(Join(args))
       [] command \in {<<"w">>, <<"w", "h", "i", "s", "p", "e", "r">>,
                       <<"m", "s", "g">>, <<"t", "e", "l", "l">>} ->
            IF Len(args) < 2
            THEN Outcome(Reply(FALSE, "Usage: /w <player> <message>"),
                         <<>>, <<>>)
            ELSE [SendWhisper(args[1], WhisperContent(args))
                    EXCEPT !.whispers = <<[targetName |-> args[1],
                                           content |-> WhisperContent(args)]>>]
       [] command = <<"h", "e", "l", "p">> ->
            Outcome(Reply(TRUE, "undefined"), <<>>, <<HelpMessage>>)
       [] OTHER -> Outcome(Reply(FALSE, "Unknown command"), <<>>, <<>>)

\* send(input)
ChatSend(input) ==
  LET trimmed == Trim(input) IN
  IF trimmed = <<>>
  THEN Outcome(Reply(FALSE, "Empty message"), <<>>, <<>>)
  ELSE IF Head(trimmed) = "/" THEN HandleCommand(trimmed)
  ELSE SendChat(trimmed)

\* addMessage(message): push, and keep the last MAX_MESSAGE_HISTORY.
AddMessage(ms, message) ==
  LET all == Append(ms, message) IN
  IF Len(all) > MaxHistory
  THEN SubSeq(all, Len(all) - MaxHistory + 1, Len(all))
  ELSE all

RECURSIVE AddMessages(_, _)
AddMessages(ms, local) ==
  IF local = <<>> THEN ms
  ELSE AddMessages(AddMessage(ms, Head(local)), Tail(local))

\* The words of the chat inputs: command words in several spellings, an
\* unknown command, a lone slash, and plain words.
CommandWords ==
  {<<"/", "w">>, <<"/", "T", "e", "L", "l">>, <<"/", "m", "s", "g">>,
   <<"/", "W", "H", "I", "S", "P", "E", "R">>, <<"/", "m", "e">>,
   <<"/", "h", "e", "l", "p">>, <<"/", "x">>, <<"/">>}
PlainWords == {<<"b", "o", "b">>, <<"/", "H", "i">>}
FirstWords == CommandWords \cup {<<"H", "i">>, <<>>}

\* The whitespace of one input: the run between its words and the run
\* before and after it.
Spacings ==
  {[sep |-> <<" ">>, margin |-> <<>>],
   [sep |-> <<" ", "\t">>, margin |-> <<" ">>]}

ArgLists == UNION {[1..n -> PlainWords] : n \in 0..MaxArgs}

\* The text of an input: the first word and the arguments, separated by sep.
RECURSIVE Spaced(_, _)
Spaced(args, sep) ==
  IF args = <<>> THEN <<>> ELSE sep \o Head(args) \o Spaced(Tail(args), sep)

InputText(first, args, spacing) ==
  spacing.margin \o first \o Spaced(args, spacing.sep) \o spacing.margin

\* new ChatManager(client)
ChatInit ==
  /\ messages = <<>>
  /\ clast = [op |-> "init"]

\* send(input) called by the application with the text built from the
\* given words.
ChatSendInput(first, args, spacing) ==
  LET input == InputText(first, args, spacing)
      out == ChatSend(input)
  IN /\ messages' = AddMessages(messages, out.local)
     /\ clast' = [op |-> "send", input |-> input, first |-> first,
                  args |-> args, connected |-> state = "connected",
                  out |-> out]

ChatFrame ==
  UNCHANGED <<mainVars, backoffVars, interpVars, presenceVars, protocolVars,
              rosterVars,
              lifeVars>>

ChatClientStep == clast' = [op |-> "client"] /\ UNCHANGED messages

ChatClientFrame ==
  UNCHANGED <<serverVars, managerVars, dispatchVars, backoffVars, interpVars,
              presenceVars, protocolVars, rosterVars,
              lifeVars>>

ChatNext ==
  \/ Connect /\ ChatClientStep /\ ChatClientFrame
  \/ \E s \in SockIds : SocketOpen(s) /\ ChatClientStep /\ ChatClientFrame
  \/ \E s \in SockIds : ReceiveConnect(s) /\ ChatClientStep /\ ChatClientFrame
  \/ \E first \in FirstWords, args \in ArgLists, spacing \in Spacings :
       ChatSendInput(first, args, spacing) /\ ChatFrame

(***************************************************************************)
(* Part VIII.  protocol.ts: serializeMessage and parseMessage on values.   *)
(* A JavaScript value is a record named after its type; an object is a     *)
(* function from its keys to values; a JSON text is the tree of the values *)
(* it denotes.                                                             *)
(***************************************************************************)
Undefined == [undefined |-> TRUE]
JsNull == [null |-> TRUE]
Num(n) == [number |-> n]
NonFinite(name) == [nonfinite |-> name]
Str(s) == [string |-> s]
Obj(f) == [object |-> f]

\* The values of the fields of a payload object, and of the envelope.
Atoms ==
  {Undefined, JsNull, Num(1), NonFinite("NaN"), Str("a")}
PayloadKeys == {"id", "targetId"}
Objects ==
  {Obj(f) : f \in UNION {[ks -> Atoms] : ks \in SUBSET PayloadKeys}}
Payloads == Atoms \cup Objects

\* The objects handed to serializeMessage: the four keys of an envelope,
\* payload possibly missing.
EnvelopeTypes == {Str("chat:message"), Num(1)}
EnvelopeStamps == {Num(1), NonFinite("NaN"), NonFinite("Infinity"), Str("a")}
EnvelopeSenders == {Str("a"), JsNull}
Envelopes ==
  {Obj([type |-> t, payload |-> p, timestamp |-> ts, senderId |-> s]) :
     t \in EnvelopeTypes, p \in Payloads, ts \in EnvelopeStamps,
     s \in EnvelopeSenders}
    \cup {Obj([type |-> t, timestamp |-> ts, senderId |-> s]) :
            t \in EnvelopeTypes, ts \in EnvelopeStamps,
            s \in EnvelopeSenders}

StringifyAtom_Quoted(a) ==
  IF "object" \in DOMAIN a THEN a ELSE Str("a")

\* JSON.stringify on a value that is no object: NaN and Infinity are
\* written as null.
StringifyAtom(a) ==
  IF "nonfinite" \in DOMAIN a THEN JsNull ELSE a

\* JSON.stringify on an object whose fields hold no object: a field whose
\* value is undefined is left out.
StringifyFlat(o) ==
  LET f == o.object
      ks == {k \in DOMAIN f : f[k] # Undefined}
  IN Obj([k \in ks |-> StringifyAtom(f[k])])

\* JSON.stringify(msg): the text, as the tree it denotes.
Stringify(o) ==
  LET f == o.object
      ks == {k \in DOMAIN f : f[k] # Undefined}
  IN Obj([k \in ks |->
            IF "object" \in DOMAIN f[k] THEN StringifyFlat(f[k])
            ELSE StringifyAtom(f[k])])

\* serializeMessage(msg)
SerializeMessage(msg) == Stringify(msg)

\* typeof parsed[key], "absent" when the key is not in the object.
KindOf(f, key) ==
  IF key \notin DOMAIN f THEN "absent"
  ELSE CASE "string" \in DOMAIN f[key] -> "string"
         [] "number" \in DOMAIN f[key] -> "number"
         [] "null" \in DOMAIN f[key] -> "null"
         [] OTHER -> "object"

\* The shape of a text that JSON.parse accepts as an object.
ShapeOf(text) ==
  RawShape("object", KindOf(text.object, "type"),
           KindOf(text.object, "payload"), KindOf(text.object, "timestamp"),
           KindOf(text.object, "senderId"))

\* parseMessage(data) on the text of an object: JSON.parse gives the values
\* the text denotes, and the result is that object or null.
ParseText(text) ==
  IF Validates(ShapeOf(text)) THEN text ELSE JsNull

ProtocolInit == rlast = [op |-> "init"]

\* parseMessage(serializeMessage(msg))
RoundTrip(msg) ==
  rlast' = [op |-> "roundTrip", msg |-> msg, text |-> SerializeMessage(msg),
            parsed |-> ParseText(SerializeMessage(msg))]

ProtocolFrame ==
  UNCHANGED <<mainVars, backoffVars, interpVars, presenceVars, chatVars,
              lifeVars, rosterVars>>

ProtocolNext == \E msg \in Envelopes : RoundTrip(msg) /\ ProtocolFrame

(***************************************************************************)
(* Part IX.  dispose() of PresenceManager, PlayerManager and ChatManager,   *)
(* and start()/stop() of PlayerRegistry.  Every manager registers one      *)
(* closure of its own under each of its keys; in the Set of a key a        *)
(* closure is known by the manager that made it.  The application calls    *)
(* no method of a manager it has disposed.                                 *)
(***************************************************************************)
Components == {"presence", "players", "chat"}

\* setupMessageHandlers(): the keys of the pushes, in their order.
Subscriptions(c) ==
  CASE c = "presence" ->
         <<"player:state", "player:join", "player:leave",
           "player:status_change", "player:typing", StateKey>>
    [] c = "players" ->
         <<"player:state", "player:join", "player:leave",
           "player:batch_position", "player:status_change", StateKey>>
    [] c = "chat" ->
         <<"chat:message", "chat:system", "chat:error", StateKey>>

Range(seq) == {seq[i] : i \in DOMAIN seq}

ComponentTypes ==
  UNION {Range(Subscriptions(c)) : c \in Components} \ {StateKey}

XLast(op, type, reached) == [op |-> op, type |-> type, reached |-> reached]

\* No manager and no registry tick yet.
LifeInit ==
  /\ unsubscribers = [c \in Components |-> <<>>]
  /\ disposed = {}
  /\ tickInterval = "null"
  /\ onBroadcast = FALSE
  /\ xlast = XLast("init", "none", {})

\* The three managers constructed on one client: every closure registered.
Constructed ==
  /\ messageHandlers =
       [k \in SubTypes \cup ComponentTypes |->
          {c \in Components : k \in Range(Subscriptions(c))}]
  /\ stateChangeHandlers = Components
  /\ subs = <<>>
  /\ dlast = DLast("init", NoMsg, NoCalls, NoStateCalls, 0, FALSE)
  /\ unsubscribers = [c \in Components |-> Subscriptions(c)]
  /\ disposed = {}
  /\ tickInterval = "null"
  /\ onBroadcast = FALSE
  /\ xlast = XLast("init", "none", {})

Deleted_Kept(hs, h) == hs

\* The closure on() and onStateChange() return: Set.delete(handler).
Deleted(hs, h) == hs \ {h}

\* for (const unsubscribe of this.unsubscribers) unsubscribe(): the Sets of
\* the client after the loop over the closures of manager c.
UnsubscribedTypes(mh, c, keys) ==
  [k \in DOMAIN mh |-> IF k \in keys THEN Deleted(mh[k], c) ELSE mh[k]]
UnsubscribedState(sh, c, keys) ==
  IF StateKey \in keys THEN Deleted(sh, c) ELSE sh

ClearTimer_Kept(timer, none) == timer

\* if (timer) { clearInterval(timer) or clearTimeout(timer); timer = null }
ClearTimer(timer, none) == none

\* dispose() of manager c.
Dispose(c) ==
  LET keys == Range(unsubscribers[c]) IN
  /\ c \in Components
  /\ messageHandlers' = UnsubscribedTypes(messageHandlers, c, keys)
  /\ stateChangeHandlers' = UnsubscribedState(stateChangeHandlers, c, keys)
  /\ unsubscribers' = [unsubscribers EXCEPT ![c] = <<>>]
  /\ disposed' = disposed \cup {c}
  /\ xlast' = XLast("dispose", c, {})
  /\ IF c = "presence"
     THEN /\ idleTimer' = ClearTimer(idleTimer, FALSE)
          /\ typingTimer' = ClearTimer(typingTimer, "null")
          /\ typingLeft' = 0
          /\ attached' = FALSE
          /\ UNCHANGED <<presenceId, localStatus, localIsTyping, sinceInput,
                         sinceKey, plast>>
     ELSE UNCHANGED presenceVars
  /\ remotePlayers' = IF c = "players" THEN {} ELSE remotePlayers
  /\ messages' = IF c = "chat" THEN <<>> ELSE messages
  /\ UNCHANGED <<configVars, clientVars, envVars, obsVars, serverVars,
                 localPlayerId, pushed, inbox, elast, subs, dlast,
                 backoffVars, interpVars, clast, protocolVars,
                 rosterVars, tickInterval,
                 onBroadcast>>

\* The managers whose closures handleMessage(msg) calls.
ReachedByMessage(mh, msg) ==
  IF IsNull(msg) \/ ClientThrows(msg) THEN {}
  ELSE (Invoked(HandlersOf(mh, msg.type))
          \cup (IF StartsWith(msg.type, "system:") THEN {}
                ELSE Invoked(HandlersOf(mh, "*")))) \cap Components

\* The managers whose closures setState(new) calls.
ReachedByState(sh, prev, new) ==
  IF prev # new THEN Invoked(sh) \cap Components ELSE {}

\* The closures of the managers under a step of the client: the
\* onStateChange closure of PresenceManager keeps the local id.
LifeOnState(op, type, byMessage) ==
  LET byState == ReachedByState(stateChangeHandlers, state, state') IN
  /\ xlast' = XLast(op, type, byMessage \cup byState)
  /\ presenceId' = IF "presence" \notin byState THEN presenceId
                   ELSE IF state' = "connected" THEN clientId'
                   ELSE IF state' = "disconnected" THEN NoId
                   ELSE presenceId
  /\ plast' = PLast(op, <<>>)
  /\ UNCHANGED <<localStatus, localIsTyping, idleTimer, typingTimer,
                 typingLeft, sinceInput, attached, sinceKey>>
  /\ UNCHANGED <<unsubscribers, disposed, tickInterval, onBroadcast>>

LifeClientFrame ==
  UNCHANGED <<serverVars, managerVars, backoffVars, interpVars, chatVars,
              protocolVars, rosterVars>>

\* The envelopes the client of the managers receives.
LifeFrames ==
  {[raw |-> WellFormed, type |-> "system:connect",
    payload |-> [clientId |-> 1], senderId |-> 0]}
  \cup {[raw |-> WellFormed, type |-> t, payload |-> [data |-> 1],
         senderId |-> 0] :
           t \in {"chat:message", "player:join"}}

\* PlayerRegistry.start(onBroadcast)
RegistryStart ==
  /\ onBroadcast' = TRUE
  /\ tickInterval' = "pending"
  /\ disposed' = disposed \ {"registry"}
  /\ xlast' = XLast("start", "none", {})
  /\ UNCHANGED <<mainVars, backoffVars, interpVars, presenceVars, chatVars,
                 protocolVars, rosterVars, unsubscribers>>

\* PlayerRegistry.stop()
RegistryStop ==
  /\ tickInterval' = ClearTimer(tickInterval, "null")
  /\ onBroadcast' = FALSE
  /\ disposed' = disposed \cup {"registry"}
  /\ xlast' = XLast("stop", "none", {})
  /\ UNCHANGED <<mainVars, backoffVars, interpVars, presenceVars, chatVars,
                 protocolVars, rosterVars, unsubscribers>>

\* The interval callback of PlayerRegistry: tick().
RegistryTick ==
  /\ tickInterval = "pending"
  /\ Tick
  /\ xlast' = XLast("tick", "none", {})
  /\ UNCHANGED <<configVars, clientVars, envVars, obsVars, managerVars,
                 dispatchVars, backoffVars, interpVars, presenceVars,
                 chatVars, protocolVars, rosterVars, unsubscribers, disposed,
                 tickInterval, onBroadcast>>

\* The steps of PresenceManager while it is not disposed, and its timers.
LifePresence ==
  \/ \E isTyping \in BOOLEAN :
       "presence" \notin disposed /\ SetTyping(isTyping) /\ ManagerFrame
  \/ TypingTimeout /\ ManagerFrame
  \/ CheckIdleStatus /\ ManagerFrame
  \/ RecordActivity /\ ManagerFrame
  \/ sinceInput < TYPING_TIMEOUT /\ Advance(TYPING_TIMEOUT) /\ ManagerFrame

\* The client connects twice in a run: one reconnect cycle.
DisposeNext ==
  \/ nextSock <= 2 /\ Connect /\ StateChangeStep("connect")
       /\ LifeOnState("connect", "none", {}) /\ LifeClientFrame
  \/ Disconnect /\ StateChangeStep("disconnect")
       /\ LifeOnState("disconnect", "none", {}) /\ LifeClientFrame
  \/ \E s \in SockIds :
       SocketOpen(s) /\ StateChangeStep("open")
         /\ LifeOnState("open", "none", {}) /\ LifeClientFrame
  \/ \E s \in SockIds, frame \in LifeFrames :
       OnMessageEvent(s, frame)
         /\ LifeOnState("message", frame.type,
                        ReachedByMessage(messageHandlers, ParseMessage(frame)))
         /\ LifeClientFrame
  \/ \E c \in Components : Dispose(c)
  \/ RegistryStart
  \/ RegistryStop
  \/ RegistryTick
  \/ LifePresence

\* No call of handleConnectionFailure() yet.
BackoffInit == blast = [op |-> "init", found |-> 0, delay |-> 0, armed |-> FALSE]

UnitInit ==
  /\ BackoffInit /\ InterpInit /\ PresenceInit /\ ChatInit /\ ProtocolInit
  /\ LifeInit /\ RosterInit

Init == ClientInit /\ ServerInit /\ ManagerInit /\ DispatchInit /\ UnitInit

ClientFrame == UNCHANGED <<serverVars, managerVars, dispatchVars, unitVars>>

Next ==
  \/ Connect /\ ClientFrame
  \/ Disconnect /\ ClientFrame
  \/ Send /\ ClientFrame
  \/ ReconnectFire /\ ClientFrame
  \/ HeartbeatTick /\ ClientFrame
  \/ HeartbeatTimeout /\ ClientFrame
  \/ \E s \in SockIds : SocketOpen(s) /\ ClientFrame
  \/ \E s \in SockIds : ReceiveConnect(s) /\ ClientFrame
  \/ \E s \in SockIds : ReceivePong(s) /\ ClientFrame
  \/ \E s \in SockIds, code \in CloseCodes :
       SocketClose(s, code) /\ ClientFrame

Spec == Init /\ [][Next]_vars

ServerFrame ==
  UNCHANGED <<configVars, clientVars, envVars, obsVars, managerVars,
              dispatchVars, unitVars>>

ServerNext ==
  \/ Accept(NextFreeId) /\ ServerFrame
  \/ \E id \in Ids, frame \in ClientFrames : Receive(id, frame) /\ ServerFrame
  \/ \E id \in Ids : PongFrame(id) /\ ServerFrame
  \/ \E id \in Ids : PeerClose(id) /\ ServerFrame
  \/ \E id \in Ids : CloseEvent(id) /\ ServerFrame
  \/ Sweep /\ ServerFrame
  \/ Tick /\ ServerFrame

\* The client of Part I does not move in ServerSpec: one configuration of
\* it is enough.
ServerSpecInit ==
  Init /\ autoReconnect /\ urlOk /\ maxReconnectAttempts = MaxAttempts

ServerSpec == ServerSpecInit /\ [][ServerNext]_vars

\* The client step op with close code `code` calls handleConnectionFailure():
\* from socket.onclose, or from the catch clause of connect().
Failing(op, code) ==
  \/ op = "close" /\ CloseReconnects(code, state)
  \/ op \in {"connect", "reconnectFire"} /\ ~ConnectReturnsEarly(state) /\ ~urlOk

\* What the client step did about the reconnect timeout.
BackoffStep ==
  LET f == HandleConnectionFailure(reconnectAttempts, reconnectTimer,
                                   leakedReconnect) IN
  blast' = IF Failing(last'.op, last'.code)
           THEN [op |-> "failure", found |-> reconnectAttempts,
                 delay |-> f.delay,
                 armed |-> ~GiveUp(reconnectAttempts, maxReconnectAttempts)]
           ELSE [op |-> last'.op, found |-> reconnectAttempts, delay |-> 0,
                 armed |-> FALSE]

BackoffFrame ==
  UNCHANGED <<serverVars, managerVars, dispatchVars, interpVars, presenceVars,
              chatVars, protocolVars, rosterVars,
              lifeVars>>

BackoffNext ==
  \/ Connect /\ BackoffStep /\ BackoffFrame
  \/ Disconnect /\ BackoffStep /\ BackoffFrame
  \/ ReconnectFire /\ BackoffStep /\ BackoffFrame
  \/ \E s \in SockIds : SocketOpen(s) /\ BackoffStep /\ BackoffFrame
  \/ \E s \in SockIds : ReceiveConnect(s) /\ BackoffStep /\ BackoffFrame
  \/ \E s \in SockIds, code \in CloseCodes :
       SocketClose(s, code) /\ BackoffStep /\ BackoffFrame

\* A client that reconnects, with a limit of attempts above the cap of the
\* delay, and a URL that the WebSocket constructor accepts or rejects.
BackoffConfig ==
  /\ autoReconnect = TRUE
  /\ maxReconnectAttempts = MaxBackoff
  /\ urlOk \in BOOLEAN

BackoffSpecInit ==
  /\ BackoffConfig /\ FieldsInit
  /\ ServerInit /\ ManagerInit /\ DispatchInit /\ UnitInit

BackoffSpec == BackoffSpecInit /\ [][BackoffNext]_vars

\* A remote player that receives snapshots and is updated every frame.
InterpSpec == ServerSpecInit /\ [][InterpNext]_vars

\* The same remote player under a render loop that keeps calling update():
\* a call that moves the clock or the player is eventually made.
\* One LoungeClient with its PresenceManager against LoungeServer and a
\* peer.
RosterSpec == ServerSpecInit /\ [][RosterNext]_vars

StalledSpec ==
  /\ ServerSpecInit
  /\ [][InterpNext]_vars
  /\ WF_vars(\E t \in Clock : Update(t) /\ InterpFrame)

\* A PresenceManager on a client that connects, fails and reconnects, with
\* inputs and idle checks as time passes.
PresenceSpec == ServerSpecInit /\ [][PresenceNext]_vars

\* The typing indicator of a PresenceManager, second by second.
TypingSpec == ServerSpecInit /\ [][TypingNext]_vars

\* A ChatManager on a client that connects, given inputs of every shape
\* before and after.
ChatSpec == ServerSpecInit /\ [][ChatNext]_vars

\* Envelopes of every shape, serialized and parsed back.
ProtocolSpec == ServerSpecInit /\ [][ProtocolNext]_vars

\* The three managers on one client, disposed in any order at any moment,
\* and a registry that is started and stopped.
DisposeSpecInit ==
  /\ autoReconnect = TRUE /\ urlOk = TRUE
  /\ maxReconnectAttempts = MaxAttempts
  /\ FieldsInit /\ ServerInit /\ ManagerInit
  /\ BackoffInit /\ InterpInit /\ PresenceInit /\ ChatInit /\ ProtocolInit
  /\ RosterInit
  /\ Constructed

DisposeSpec == DisposeSpecInit /\ [][DisposeNext]_vars

\* One client and one peer on a server.
ForgeSpec == ServerSpecInit /\ [][ForgeNext]_vars

\* The usernames a whisper can name.
Names == {[stem |-> s, id |-> i] : s \in Stems, i \in Ids}

\* The payloads of a CHAT_WHISPER: targetId and targetName each present or
\* absent.
WhisperPayloads ==
  {[content |-> "psst"]}
  \cup {[targetId |-> i, content |-> "psst"] : i \in Ids}
  \cup {[targetName |-> n, content |-> "psst"] : n \in Names}
  \cup {[targetId |-> i, targetName |-> n, content |-> "psst"] :
          i \in Ids, n \in Names}

\* The types handleMessage and its two sub-handlers have a case for.
Recognized ==
  {"system:ping", "system:pong", "player:position",
   "player:request_full_state", "player:status_change", "chat:send",
   "chat:whisper", "chat:emote"}

\* The frames a peer sends to have them routed: chat lines, emotes, status
\* changes naming any id under any senderId, whispers, PINGs, envelopes of
\* types the server has no case for, and envelopes whose payload is null or
\* lacks the fields of its type.
RouteFrames ==
  {[raw |-> RawShape("malformed", "absent", "absent", "absent", "absent"),
    type |-> "", payload |-> [none |-> 0], senderId |-> 0]}
  \cup {[raw |-> WellFormed, type |-> "chat:send",
         payload |-> [content |-> "hi"], senderId |-> 1]}
  \cup {[raw |-> WellFormed, type |-> "chat:emote",
         payload |-> [action |-> "waves"], senderId |-> 1]}
  \cup {[raw |-> WellFormed, type |-> "system:pong", payload |-> [seq |-> 1],
         senderId |-> 1]}
  \cup {[raw |-> WellFormed, type |-> "player:status_change",
         payload |-> [id |-> i, status |-> st], senderId |-> c] :
           i \in FrameIds, st \in Statuses, c \in FrameIds}
  \cup {[raw |-> WellFormed, type |-> "chat:whisper", payload |-> p,
         senderId |-> 1] : p \in WhisperPayloads}
  \cup {[raw |-> WellFormed, type |-> "system:ping", payload |-> [seq |-> q],
         senderId |-> 1] : q \in 1..MaxPing}
  \cup {[raw |-> WellFormed, type |-> "system:ping", payload |-> [none |-> 0],
         senderId |-> 1]}
  \cup {[raw |-> WellFormed, type |-> t, payload |-> [data |-> 1],
         senderId |-> 1] :
           t \in {"player:typing", "chat:message", "custom:event",
                  "system:connect"}}
  \cup {[raw |-> WithNullPayload, type |-> t, payload |-> NullPayload,
         senderId |-> 1] :
           t \in {"system:ping", "player:position", "chat:whisper",
                  "custom:event"}}

RouteNext ==
  \/ Accept(NextFreeId) /\ ServerFrame
  \/ \E id \in Ids, frame \in RouteFrames : Receive(id, frame) /\ ServerFrame
  \/ \E id \in Ids : PeerClose(id) /\ ServerFrame
  \/ \E id \in Ids : CloseEvent(id) /\ ServerFrame

\* The server routing the frames of two sessions.
RouteSpec == ServerSpecInit /\ [][RouteNext]_vars

\* The client with its subscribers, receiving envelopes.
DispatchSpec == ServerSpecInit /\ [][DispatchNext]_vars

\* The shapes of the text frames a peer can put on the wire: text that is
\* not JSON, JSON values that are no object, the empty object, the
\* well-formed envelope, and the envelope with one field absent or of
\* another kind.
RawShapes ==
  {RawShape(j, "absent", "absent", "absent", "absent") : j \in JsonKinds}
  \cup {WellFormed}
  \cup {[WellFormed EXCEPT !.type = k] : k \in FieldKinds}
  \cup {[WellFormed EXCEPT !.payload = k] : k \in FieldKinds}
  \cup {[WellFormed EXCEPT !.timestamp = k] : k \in FieldKinds}
  \cup {[WellFormed EXCEPT !.senderId = k] : k \in FieldKinds}

\* Text frames of every shape; the fields a shape has as strings carry the
\* values of a chat line.
RawFrames ==
  {[raw |-> r, type |-> "chat:message", payload |-> [content |-> "hi"],
    senderId |-> 1] : r \in RawShapes}

ParseNext ==
  \/ Accept(NextFreeId) /\ ServerFrame
  \/ \E id \in Ids, frame \in RawFrames : Receive(id, frame) /\ ServerFrame
  \/ Connect /\ StateChangeStep("connect") /\ DispatchFrame
  \/ \E s \in SockIds :
       SocketOpen(s) /\ StateChangeStep("open") /\ DispatchFrame
  \/ \E s \in SockIds, frame \in RawFrames :
       OnMessageEvent(s, frame) /\ DispatchFrame
  \/ \E h \in Handlers : OnMessage(h) /\ SubscribeFrame
  \/ \E h \in Handlers : ClientOnStateChange(h) /\ SubscribeFrame

\* Server and client, each receiving text frames of every shape.
ParseSpec == ServerSpecInit /\ [][ParseNext]_vars

E2EFrame == UNCHANGED <<dispatchVars, unitVars>>

E2ENext ==
  \/ E2EConnect /\ E2EFrame
  \/ E2EReconnectFire /\ E2EFrame
  \/ \E s \in SockIds : E2EFail(s) /\ E2EFrame
  \/ \E s \in SockIds : E2EOpen(s) /\ E2EFrame
  \/ \E s \in SockIds : E2EConnectMsg(s) /\ E2EFrame
  \/ \E s \in SockIds : E2EDeliver(s) /\ E2EFrame
  \/ \E p \in Coords : E2EPosition(p) /\ E2EFrame
  \/ E2ETick /\ E2EFrame

E2ESpec == ServerSpecInit /\ [][E2ENext]_vars

----------------------------------------------------------------------------
(***************************************************************************)
(* Properties of LoungeClient.                                             *)
(***************************************************************************)

\* C1: connect() from 'disconnected' moves to 'connecting'; 'connected' is
\* entered only by handling a CONNECT envelope, only from 'connecting' or
\* 'reconnecting', with clientId the id of the payload; an abnormal close
\* while 'connected' with autoReconnect (and a retry budget) moves to
\* 'reconnecting'.
C1_StateMachine ==
  [][/\ (state = "disconnected" /\ last'.op = "connect" /\ socket' # NoSock)
          => state' = "connecting"
     /\ (state' = "connected" /\ state # "connected")
          => /\ last'.op = "connectMsg"
             /\ state \in {"connecting", "reconnecting"}
             /\ clientId' = AssignedId(last'.sock)
     /\ (/\ last'.op = "close" /\ last'.code # NORMAL
         /\ state = "connected" /\ autoReconnect /\ maxReconnectAttempts >= 1)
          => state' = "reconnecting"]_vars

\* C2: when disconnect() returns the client is 'disconnected' with clientId
\* null and no heartbeat, heartbeat-timeout or reconnect timer pending; the
\* close event of the socket it closed never schedules a reconnect.
C2_DisconnectSuppressesReconnect ==
  /\ [](last.op = "disconnect" =>
          /\ state = "disconnected" /\ clientId = NoId
          /\ ~heartbeatTimer /\ heartbeatTimeoutTimer # "pending"
          /\ reconnectTimer # "pending")
  /\ [][(last'.op = "close" /\ sockCloseCode[last'.sock] = NORMAL)
          => /\ reconnectAttempts' = reconnectAttempts
             /\ reconnectTimer' = reconnectTimer
             /\ leakedReconnect' = leakedReconnect]_vars

\* C3: with autoReconnect enabled and no socket ever reaching OPEN, the
\* client makes at most maxReconnectAttempts automatic attempts, is then
\* 'disconnected' with no reconnect timer pending, and creates no further
\* socket until connect() is called.
NeverOpened == \A s \in SockIds : ~sockOpened[s]

C3_GivesUp ==
  /\ []((autoReconnect /\ NeverOpened) =>
          /\ autoAttempts <= maxReconnectAttempts
          /\ state = "disconnected" =>
               (reconnectTimer # "pending" /\ leakedReconnect = 0))
  /\ [][(autoReconnect /\ NeverOpened /\ state = "disconnected"
         /\ nextSock' # nextSock) => last'.op = "connect"]_vars

\* C4: each PING arms a timeout; the timeout closes the socket with
\* HEARTBEAT_TIMEOUT only if no PONG arrived since the PING; once armed it
\* is disarmed only by a PONG, by its deadline or by the end of the
\* connection (close event of the current socket, disconnect()); the close
\* event of a heartbeat close moves a 'connected' client with autoReconnect
\* (and a retry budget) to 'reconnecting'.
C4_Heartbeat ==
  [][/\ (last'.op = "hbTick" /\ last'.ret = "ping")
          => heartbeatTimeoutTimer' = "pending"
     /\ (last'.op = "hbTimeout")
          => /\ ~pongSincePing
             /\ socket # NoSock /\ sockStatus'[socket] # "open"
     /\ (heartbeatTimeoutTimer = "pending" /\ heartbeatTimeoutTimer' # "pending")
          => \/ last'.op \in {"pongMsg", "hbTimeout", "disconnect"}
             \/ last'.op = "close" /\ last'.sock = socket
     /\ (/\ last'.op = "close" /\ sockCloseCode[last'.sock] = HEARTBEAT_TIMEOUT
         /\ state = "connected" /\ autoReconnect /\ maxReconnectAttempts >= 1)
          => state' = "reconnecting"]_vars

\* C5: send() returns true, having handed exactly one envelope with
\* senderId = clientId to the socket, iff state is 'connected', a socket is
\* held and clientId is non-null; otherwise it returns false and sends
\* nothing; it never changes the client's fields.
C5_Send ==
  [][last'.op = "send" =>
       /\ CanSend(state, socket, clientId)
            => (last'.ret = "true" /\ last'.sock = socket /\ last'.id = clientId)
       /\ ~CanSend(state, socket, clientId)
            => (last'.ret = "false" /\ last'.sock = NoSock)
       /\ UNCHANGED clientVars]_vars

----------------------------------------------------------------------------
(***************************************************************************)
(* Properties of LoungeServer and PlayerRegistry, checked under            *)
(* ServerSpec.                                                             *)
(***************************************************************************)
\* The sessions of a session map.
Sessions(cl) == {cl[k] : k \in 1..Len(cl)}

\* The player ids to which a receiving client ascribes the content of an
\* envelope: a status change to payload.id, a chat line to its senderId, a
\* position to the id of each update.
AttributedTo(msg) ==
  CASE msg.type = "player:status_change" -> {msg.payload.id}
    [] msg.type = "chat:message" -> {msg.payload.senderId}
    [] msg.type = "player:batch_position" -> {u.id : u \in msg.payload.updates}
    [] OTHER -> {}

\* C6: whatever senderId or payload id an envelope received on the socket
\* of session S names, the registry entries of the other players stay as
\* they are, and every envelope the server sends to another session in
\* response ascribes its content to S's assigned id only.
C6_Identity ==
  [][slast'.op = "message" =>
       /\ DOMAIN players' = DOMAIN players
       /\ \A j \in DOMAIN players \ {slast'.id} : players'[j] = players[j]
       /\ \A k \in 1..Len(sent') :
            sent'[k].to # slast'.id
              => AttributedTo(sent'[k].msg) \subseteq {slast'.id}]_vars

\* The sends hold a PLAYER_JOIN for player id addressed to session j.
JoinIn(sends, j, id) ==
  \E k \in 1..Len(sends) :
    /\ sends[k].to = j
    /\ sends[k].msg.type = "player:join"
    /\ sends[k].msg.payload.id = id

\* What C7 says of the accept handler apart from the PLAYER_JOIN recipients:
\* a fresh id, CONNECT with that id first on the socket, then PLAYER_STATE
\* holding the new player.
AcceptReplies(id) ==
  /\ id \notin usedIds
  /\ firstSent[id] = "none"
  /\ firstSent'[id] = "system:connect"
  /\ Len(sent') >= 2
  /\ sent'[1] = [to |-> id,
                 msg |-> Msg("system:connect", [clientId |-> id], SERVER)]
  /\ sent'[2].to = id
  /\ sent'[2].msg.type = "player:state"
  /\ \E p \in sent'[2].msg.payload.players : p.id = id

\* C7: an accepted connection gets an id no session had before; the first
\* envelope on its socket is CONNECT with that id, the second PLAYER_STATE
\* holding the new player; PLAYER_JOIN for it goes to exactly the other
\* sessions of the map whose socket is open.
C7_Accept ==
  [][slast'.op = "accept" =>
       /\ AcceptReplies(slast'.id)
       /\ \A j \in Ids :
            JoinIn(sent', j, slast'.id)
              <=> (j # slast'.id /\ j \in Sessions(clients)
                   /\ wsState[j] = "open")]_vars

\* C7 as stated: PLAYER_JOIN goes to every other session of the map.
C7_AcceptEverySession ==
  [][slast'.op = "accept" =>
       /\ AcceptReplies(slast'.id)
       /\ \A j \in Ids :
            JoinIn(sent', j, slast'.id)
              <=> (j # slast'.id /\ j \in Sessions(clients))]_vars

C7_Witness ==
  /\ slast.op = "accept"
  /\ \E j \in Sessions(clients) : j # slast.id /\ JoinIn(sent, j, slast.id)

\* The sends hold a PLAYER_LEAVE for player id addressed to session j.
LeaveIn(sends, j, id) ==
  \E k \in 1..Len(sends) :
    /\ sends[k].to = j
    /\ sends[k].msg.type = "player:leave"
    /\ sends[k].msg.payload.id = id

\* C8: a sweep terminates and removes, with its player, every session that
\* neither produced a pong nor was accepted since the previous sweep, and
\* PLAYER_LEAVE for it reaches the open sessions that remain; it removes no
\* other session; every session it leaves in the map is marked not alive
\* and has ping() called on its socket.
C8_Sweep ==
  [][slast'.op = "sweep" =>
       /\ \A id \in Sessions(clients) :
            IF pongSeen[id] \/ acceptedSince[id]
            THEN id \in Sessions(clients')
            ELSE /\ id \in slast'.removed
                 /\ id \notin Sessions(clients')
                 /\ id \notin DOMAIN players'
                 /\ wsState'[id] = "terminated"
                 /\ \A j \in Sessions(clients') :
                      wsState'[j] = "open" => LeaveIn(sent', j, id)
       /\ \A id \in Sessions(clients') :
            ~isAlive'[id] /\ id \in slast'.pinged]_vars

C8_Witness ==
  /\ slast.op = "sweep"
  /\ \E id \in slast.removed, j \in slast.pinged :
       j \in Sessions(clients) /\ LeaveIn(sent, j, id)

\* C9: the updates of a tick are exactly one per player added or moved
\* since the previous tick, with that player's latest position and
\* rotation; the broadcast callback runs iff there is such a player; no
\* player is dirty after the tick.
C9_Tick ==
  [][slast'.op = "tick" =>
       /\ slast'.updates =
            {[id |-> i, position |-> touched[i].position,
              rotation |-> touched[i].rotation] : i \in DOMAIN touched}
       /\ \A i \in DOMAIN touched :
            Cardinality({u \in slast'.updates : u.id = i}) = 1
       /\ slast'.called <=> DOMAIN touched # {}
       /\ ~slast'.called => sent' = <<>>
       /\ \A i \in DOMAIN players' : ~players'[i].dirty]_vars

C9_Witness ==
  /\ slast.op = "tick"
  /\ slast.called
  /\ \E i \in DOMAIN slast.before : slast.before[i].moves >= 2
  /\ \E j \in DOMAIN players : j \notin DOMAIN slast.before

----------------------------------------------------------------------------
(***************************************************************************)
(* Client and server together, checked under E2ESpec.                      *)
(***************************************************************************)
\* The sends hold, addressed to session j, a PLAYER_BATCH_POSITION with
\* the update u.
BatchIn(sends, j, u) ==
  \E k \in 1..Len(sends) :
    /\ sends[k].to = j
    /\ sends[k].msg.type = "player:batch_position"
    /\ u \in sends[k].msg.payload.updates

\* C10: the tick after the server handled a PLAYER_POSITION of a session
\* that is still registered sends every other session with an open socket
\* a PLAYER_BATCH_POSITION holding that session's id and latest position;
\* and the batch handler of a client never pushes an update with the
\* client's own id into the buffer of a remote player.
C10_EndToEnd ==
  [][/\ elast' = "tick" =>
          \A c \in DOMAIN touched :
            (touched[c].moves >= 1 /\ c \in DOMAIN players) =>
              \A j \in Sessions(clients) \ {c} :
                wsState[j] = "open" =>
                  BatchIn(sent', j, [id |-> c,
                                     position |-> touched[c].position,
                                     rotation |-> touched[c].rotation])
     /\ elast' = "player:batch_position" => clientId \notin pushed']_vars

----------------------------------------------------------------------------
\* C11: after every server callback the ids of the session map are the ids
\* of the player registry (one player per session), so no callback removes
\* a session and keeps its player, or the reverse.
C11_MapsAgree == Sessions(clients) = DOMAIN players

C11_Witness ==
  /\ slast.op \in {"close", "sweep"}
  /\ clients # <<>>
  /\ Cardinality(usedIds) > Len(clients)

----------------------------------------------------------------------------
\* A whisper was handled in this step.
WhisperStep ==
  /\ slast'.op = "message"
  /\ ~IsNull(slast'.msg)
  /\ slast'.msg.type = "chat:whisper"

\* C12: a CHAT_WHISPER of session S sends envelopes only to S and to the
\* resolved target: found, exactly one whisper CHAT_MESSAGE to the target
\* and exactly one copy to S; not found, exactly one CHAT_ERROR
\* PLAYER_NOT_FOUND to S; nothing to any other session.
C12_WhisperDelivery ==
  [][WhisperStep =>
       LET S == slast'.id
           T == ResolveTarget(clients, slast'.msg.payload)
           toT == SelectSeq(sent', LAMBDA e : e.to = T)
           toS == SelectSeq(sent', LAMBDA e : e.to = S)
           IsWhisper(e) == /\ e.msg.type = "chat:message"
                           /\ e.msg.payload.type = "whisper"
                           /\ e.msg.payload.senderId = S
       IN /\ \A k \in 1..Len(sent') : sent'[k].to \in {S, T}
          /\ T = NoId =>
               /\ Len(sent') = 1
               /\ sent'[1].msg.type = "chat:error"
               /\ sent'[1].msg.payload.code = "PLAYER_NOT_FOUND"
          /\ T # NoId =>
               /\ Len(sent') = 2
               /\ toT # <<>> /\ toS # <<>>
               /\ \A k \in 1..2 : IsWhisper(sent'[k])]_vars

\* The session a whisper payload names by the rule of the specification:
\* the session with id targetId when there is one, otherwise the session
\* with username targetName ignoring case when there is one.
NamedTarget(cl, payload) ==
  LET byId == {c \in Sessions(cl) :
                 "targetId" \in DOMAIN payload /\ c = payload.targetId}
      byName == {c \in Sessions(cl) :
                   /\ "targetName" \in DOMAIN payload
                   /\ ToLowerCase(Username(c)) = ToLowerCase(payload.targetName)}
  IN IF byId # {} THEN byId ELSE byName

\* C13: the whisper target is the session with id targetId if there is one,
\* otherwise the session with username targetName ignoring case if there is
\* one; PLAYER_NOT_FOUND only when neither lookup matches.
C13_WhisperResolution ==
  [][(WhisperStep /\ ~slast'.threw) =>
       LET named == NamedTarget(clients, slast'.msg.payload) IN
       /\ (\E k \in 1..Len(sent') : sent'[k].msg.type = "chat:error")
            <=> named = {}
       /\ \A k \in 1..Len(sent') :
            sent'[k].msg.type = "chat:message"
              => sent'[k].msg.payload.targetId \in named]_vars

\* C15: handleMessage runs to completion on every envelope that passes the
\* validation, whatever its type and payload.
C15_NoUncaughtException ==
  [][(slast'.op = "message" /\ ~IsNull(slast'.msg)) => ~slast'.threw]_vars

\* C19: a valid envelope of a type the server does not recognize goes,
\* unchanged, to every other open session once and not to its sender.
C19_UnknownBroadcast ==
  [][(/\ slast'.op = "message"
      /\ ~IsNull(slast'.msg)
      /\ slast'.msg.type \notin Recognized) =>
       LET others == {c \in Sessions(clients) :
                        c # slast'.id /\ wsState[c] = "open"}
       IN /\ {sent'[k].to : k \in 1..Len(sent')} = others
          /\ Len(sent') = Cardinality(others)
          /\ \A k \in 1..Len(sent') : sent'[k].msg = slast'.msg]_vars

\* C20: a PING gets exactly one PONG, to the sending socket, with the seq
\* of the PING, and nothing goes to any other session.
C20_PingPong ==
  [][(/\ slast'.op = "message"
      /\ ~IsNull(slast'.msg)
      /\ slast'.msg.type = "system:ping") =>
       /\ Len(sent') = 1
       /\ sent'[1].to = slast'.id
       /\ sent'[1].msg.type = "system:pong"
       /\ "seq" \in DOMAIN slast'.msg.payload
            => sent'[1].msg.payload = [seq |-> slast'.msg.payload.seq]]_vars

----------------------------------------------------------------------------
(***************************************************************************)
(* Properties of the subscriptions and the dispatch of LoungeClient.       *)
(***************************************************************************)

\* How often handleMessage is to call handler h for its subscription under
\* key k when it dispatches an envelope of the given type: once when k is
\* the type of the envelope, or when k is the wildcard and the type is not
\* a system type.
Due(mh, k, h, type) ==
  IF h \in mh[k] /\ (k = type \/ (k = "*" /\ ~StartsWith(type, "system:")))
  THEN 1 ELSE 0

\* C16: when an envelope or a state change is dispatched and a handler
\* throws, every other handler subscribed to the event is still called
\* exactly once, the exception stays inside the dispatch and the
\* connection state is what it is without the throw.
C16_HandlerIsolation ==
  [][dlast'.caught > 0 =>
       /\ ~dlast'.escaped
       /\ \A h \in Handlers \ Throwing :
            /\ dlast'.stateCalls[h] =
                 IF state' # state /\ h \in stateChangeHandlers THEN 1 ELSE 0
            /\ dlast'.op = "message" =>
                 \A k \in SubTypes :
                   dlast'.calls[k][h] =
                     Due(messageHandlers, k, h, dlast'.msg.type)
       /\ (dlast'.op = "message" /\ dlast'.msg.type # "system:connect")
            => state' = state]_vars

\* The registration r is served: its handler is in the set of its key.
Served(mh, sh, r) ==
  IF r.key = StateKey THEN r.handler \in sh ELSE r.handler \in mh[r.key]

\* C17: calling the unsubscribe function of one registration stops that
\* registration only, every other registration whose unsubscribe function
\* was not called keeps receiving (also one of the same type and the same
\* handler), and a second call of an unsubscribe function changes nothing.
C17_IndependentUnsubscribe ==
  [][dlast'.op = "unsubscribe" =>
       /\ \A j \in 1..Len(subs') :
            ~subs'[j].called
              => Served(messageHandlers', stateChangeHandlers', subs'[j])
       /\ dlast'.again =>
            UNCHANGED <<messageHandlers, stateChangeHandlers>>]_vars

\* C18: a valid envelope is delivered exactly once to each handler
\* subscribed to its exact type, and each wildcard subscriber gets every
\* envelope of a non-system type exactly once and no system envelope.
C18_DispatchOnce ==
  [][(dlast'.op = "message" /\ ~IsNull(dlast'.msg)) =>
       \A k \in SubTypes, h \in Handlers :
         dlast'.calls[k][h] = Due(messageHandlers, k, h, dlast'.msg.type)]_vars

----------------------------------------------------------------------------
\* A text frame that is malformed JSON or lacks one of the four envelope
\* fields: type (a string), payload, timestamp (a number), senderId (a
\* string).
Lacking(raw) ==
  \/ raw.json = "malformed"
  \/ raw.type # "string"
  \/ raw.payload = "absent"
  \/ raw.timestamp # "number"
  \/ raw.senderId # "string"

\* C14: for a text frame that is malformed JSON or lacks one of the four
\* envelope fields parseMessage returns null without throwing; the server
\* sends exactly one system:error INVALID_MESSAGE to the sending socket,
\* nothing to others, and leaves sessions and players as they are; the
\* client calls no handler and changes no state.
C14_InvalidFrames ==
  [][/\ (slast'.op = "message" /\ Lacking(slast'.raw)) =>
          /\ IsNull(slast'.msg)
          /\ ~slast'.threw
          /\ sent' = <<[to |-> slast'.id,
                        msg |-> Msg("system:error",
                                    [code |-> "INVALID_MESSAGE"], SERVER)]>>
          /\ UNCHANGED <<clients, players, isAlive, wsState, usedIds>>
     /\ (dlast'.op = "message" /\ Lacking(dlast'.raw)) =>
          /\ IsNull(dlast'.msg)
          /\ ~dlast'.escaped
          /\ dlast'.calls = NoCalls
          /\ dlast'.stateCalls = NoStateCalls
          /\ UNCHANGED <<clientVars, messageHandlers, stateChangeHandlers>>
    ]_vars

C14_Witness ==
  /\ slast.op = "message"
  /\ Lacking(slast.raw)
  /\ slast.raw.json = "object"
  /\ Len(clients) = 2
  /\ dlast.op = "message"
  /\ Lacking(dlast.raw)
  /\ messageHandlers["*"] # {}
  /\ stateChangeHandlers # {}

\* The delay the claim gives for the n-th consecutive failure.
ClaimedDelay(n) ==
  IF n <= 5 THEN ReconnectInterval * n ELSE ReconnectInterval * 5

SameNumber(p, q) ==
  /\ ~IsNaN(p) /\ ~IsNaN(q)
  /\ p.num * q.den = q.num * p.den

\* The pair (i, i + 1) of the buffer brackets the render time r.
Brackets(i, r) ==
  /\ positionBuffer[i].timestamp <= r
  /\ r <= positionBuffer[i + 1].timestamp

\* i is the first pair of the buffer that brackets r.
FirstPair(i, r) ==
  /\ i \in 1..(Len(positionBuffer) - 1)
  /\ Brackets(i, r)
  /\ \A j \in 1..(i - 1) : ~Brackets(j, r)

\* prev + (next - prev) * (r - prev.timestamp) / (next.timestamp -
\* prev.timestamp), for component c.
Interpolated(prev, next, r, c) ==
  Frac(prev[c] * (next.timestamp - prev.timestamp)
         + (next[c] - prev[c]) * (r - prev.timestamp),
       next.timestamp - prev.timestamp)

\* C22: when update() runs on a buffer of at least two snapshots whose first
\* bracketing pair (prev, next) has prev.timestamp < next.timestamp, the
\* target position and rotation become prev + (next - prev) * (renderTime -
\* prev.timestamp) / (next.timestamp - prev.timestamp), with renderTime =
\* now - interpolationDelay.
C22_InterpolationTarget ==
  [][(ilast'.op = "update") =>
       \A i \in 1..(Len(positionBuffer) - 1) :
         LET r == now' - INTERPOLATION_DELAY
             prev == positionBuffer[i]
             next == positionBuffer[i + 1]
         IN (FirstPair(i, r) /\ prev.timestamp < next.timestamp) =>
              /\ SameNumber(targetPosition',
                            Interpolated(prev, next, r, "position"))
              /\ SameNumber(targetRotation',
                            Interpolated(prev, next, r, "rotation"))]_vars

\* update() chose a pair and left the target half way between two different
\* positions.
C22_Witness ==
  /\ ilast.op = "update" /\ ilast.size >= 2 /\ ilast.pair > 0
  /\ ~IsNaN(targetPosition)
  /\ 2 * targetPosition.num = targetPosition.den

\* C23: update() changes the target only when the buffer holds at least two
\* snapshots and a bracketing pair exists, or when it holds exactly one
\* snapshot, and then the target is that snapshot; otherwise the target
\* stays as it was.
C23_NoExtrapolation ==
  [][(ilast'.op = "update") =>
       LET r == now' - INTERPOLATION_DELAY
           bracketed == /\ Len(positionBuffer) >= 2
                        /\ \E i \in 1..(Len(positionBuffer) - 1) : Brackets(i, r)
       IN /\ (Len(positionBuffer) = 1) =>
               /\ targetPosition' = Frac(positionBuffer[1].position, 1)
               /\ targetRotation' = Frac(positionBuffer[1].rotation, 1)
          /\ (~bracketed /\ Len(positionBuffer) # 1) =>
               UNCHANGED <<targetPosition, targetRotation>>]_vars

\* update() found two snapshots or more, both older than the render time,
\* and the target is not the position of the newest one left.
C23_Witness ==
  /\ ilast.op = "update" /\ ilast.size >= 2 /\ ilast.pair = 0
  /\ positionBuffer # <<>>
  /\ positionBuffer[Len(positionBuffer)].timestamp < ilast.renderTime
  /\ targetPosition # Frac(positionBuffer[Len(positionBuffer)].position, 1)

\* s is what is left of b after dropping snapshots from its front.
IsSuffix(s, b) ==
  /\ Len(s) <= Len(b)
  /\ s = SubSeq(b, Len(b) - Len(s) + 1, Len(b))

\* C24: the buffer never holds more than maxBufferSize snapshots and keeps
\* them in arrival order: a push appends the snapshot, after removing
\* exactly the oldest one when the buffer is full, and update() only drops
\* snapshots from the front.
C24_BoundedBuffer ==
  [][/\ Len(positionBuffer') <= MaxBufferSize
     /\ (ilast'.op = "push") =>
          positionBuffer' =
            IF Len(positionBuffer) < MaxBufferSize
            THEN Append(positionBuffer, ilast'.update)
            ELSE Append(Tail(positionBuffer), ilast'.update)
     /\ (ilast'.op = "update") => IsSuffix(positionBuffer', positionBuffer)]_vars

\* A push found the buffer full.
C24_Witness ==
  /\ ilast.op = "push" /\ ilast.size = MaxBufferSize
  /\ Len(positionBuffer) = MaxBufferSize
  /\ positionBuffer[MaxBufferSize] = ilast.update

\* C25: every change of the derived status of the local player (active
\* below 60 s since the last input, idle below 300 s, away otherwise; an
\* input makes it active at once) updates the local status and sends exactly
\* one PLAYER_STATUS_CHANGE with the new status, and no PLAYER_STATUS_CHANGE
\* is sent when the status did not change.
C25_StatusChangeSent ==
  [][/\ (plast'.op = "check") => localStatus' = DerivedStatus(sinceInput)
     /\ (plast'.op = "input") => localStatus' = "active"
     /\ (localStatus' # localStatus) =>
          /\ Len(plast'.sent) = 1
          /\ plast'.sent[1].type = "player:status_change"
          /\ plast'.sent[1].status = localStatus'
     /\ (localStatus' = localStatus) =>
          \A i \in 1..Len(plast'.sent) :
            plast'.sent[i].type # "player:status_change"]_vars

\* C26: every setTyping(true) restarts the typing timeout of 3 s, so the
\* automatic clear (the flag false again, with a clearing message) happens
\* only once 3 s have passed since the most recent setTyping(true); typing
\* messages are sent only when the flag changes.
C26_TypingTimer ==
  [][/\ (plast'.op = "typing") =>
          typingTimer' = "pending" /\ typingLeft' = TYPING_TIMEOUT
     /\ (plast'.op = "autoClear") =>
          sinceKey >= TYPING_TIMEOUT /\ ~localIsTyping'
     /\ (\E i \in 1..Len(plast'.sent) : plast'.sent[i].type = "player:typing")
          => localIsTyping' # localIsTyping]_vars

\* The words of the input of the last send(input), in order.
InputWords(c) == IF c.first = <<>> THEN c.args ELSE <<c.first>> \o c.args

\* The input of the call is a command: its first word starts with a slash.
IsCommand(c) == InputWords(c) # <<>> /\ Head(InputWords(c)[1]) = "/"

\* The spellings of the whisper commands among the words of the model.
WhisperWords ==
  {<<"/", "w">>, <<"/", "T", "e", "L", "l">>, <<"/", "m", "s", "g">>,
   <<"/", "W", "H", "I", "S", "P", "E", "R">>}

\* The input of the call is an unknown command or lacks arguments.
UnknownOrUsage(c) ==
  /\ IsCommand(c)
  /\ \/ InputWords(c)[1] \in {<<"/", "x">>, <<"/">>, <<"/", "H", "i">>}
     \/ InputWords(c)[1] \in WhisperWords /\ Len(InputWords(c)) < 3
     \/ InputWords(c)[1] = <<"/", "m", "e">> /\ Len(InputWords(c)) < 2

\* C27: send(input) puts at most one envelope on the wire, and none for an
\* empty input, for /help (which adds one local system message to the
\* history and returns handled = true), for an unknown command or a usage
\* error (handled = false), and for any chat, whisper or emote while the
\* connection state is not 'connected' (handled = false with an error).
C27_AtMostOneEnvelope ==
  [][(clast'.op = "send") =>
       LET c == clast'
           out == c.out
       IN /\ Len(out.sent) <= 1
          /\ (InputWords(c) = <<>>) =>
               out.sent = <<>> /\ ~out.result.handled
          /\ (IsCommand(c) /\ InputWords(c)[1] = <<"/", "h", "e", "l", "p">>) =>
               /\ out.sent = <<>> /\ out.result.handled
               /\ Len(out.local) = 1 /\ out.local[1].type = "system"
               /\ messages' # <<>> /\ messages'[Len(messages')] = out.local[1]
          /\ UnknownOrUsage(c) =>
               out.sent = <<>> /\ ~out.result.handled /\ out.local = <<>>
          /\ (~c.connected /\ InputWords(c) # <<>>
                /\ ~(IsCommand(c)
                       /\ InputWords(c)[1] = <<"/", "h", "e", "l", "p">>)) =>
               /\ out.sent = <<>> /\ ~out.result.handled
               /\ out.result.error # "undefined"]_vars

\* /help on a connected client: handled, nothing sent, one message added.
C27_Witness ==
  /\ clast.op = "send" /\ clast.connected
  /\ clast.first = <<"/", "h", "e", "l", "p">>
  /\ clast.out.sent = <<>> /\ clast.out.result.handled
  /\ messages # <<>>

\* The words joined by single spaces.
RECURSIVE SingleSpaced(_)
SingleSpaced(ws) ==
  IF Len(ws) = 1 THEN ws[1]
  ELSE SingleSpaced(SubSeq(ws, 1, Len(ws) - 1)) \o <<" ">> \o ws[Len(ws)]

\* C28: an input that starts with a whisper command (w, whisper, msg or
\* tell, in any letter case) with two or more arguments, split on
\* whitespace, produces a whisper to the first argument whose content is
\* the other arguments joined by single spaces, and that is the envelope a
\* connected client sends; with fewer than two arguments it returns handled
\* = false with a usage error and no whisper.
C28_WhisperParsing ==
  [][(clast'.op = "send" /\ IsCommand(clast')
        /\ InputWords(clast')[1] \in WhisperWords) =>
       LET out == clast'.out
           args == Tail(InputWords(clast'))
       IN IF Len(args) >= 2
          THEN /\ out.whispers = <<[targetName |-> args[1],
                                     content |-> SingleSpaced(Tail(args))]>>
               /\ \A i \in 1..Len(out.sent) :
                    out.sent[i] = [type |-> "chat:whisper",
                                   targetName |-> args[1],
                                   content |-> SingleSpaced(Tail(args))]
               /\ out.result.handled => Len(out.sent) = 1
          ELSE /\ ~out.result.handled
               /\ out.result.error = "Usage: /w <player> <message>"
               /\ out.whispers = <<>> /\ out.sent = <<>>]_vars

\* A whisper command in mixed case with a content of two words was sent.
C28_Witness ==
  /\ clast.op = "send"
  /\ clast.first = <<"/", "T", "e", "L", "l">> /\ Len(clast.args) = 3
  /\ Len(clast.out.sent) = 1
  /\ clast.out.sent[1].targetName = clast.args[1]
  /\ clast.out.sent[1].content = clast.args[2] \o <<" ">> \o clast.args[3]

\* The envelope is valid: type a string, payload present, timestamp a
\* number, senderId a string.
ValidEnvelope(msg) ==
  LET f == msg.object IN
  /\ "string" \in DOMAIN f.type
  /\ "payload" \in DOMAIN f
  /\ DOMAIN f.timestamp \cap {"number", "nonfinite"} # {}
  /\ "string" \in DOMAIN f.senderId

\* The value is JSON data: no undefined, NaN or Infinity in it.
JsonData(v) ==
  IF "object" \in DOMAIN v
  THEN \A k \in DOMAIN v.object :
         DOMAIN v.object[k] \cap {"undefined", "nonfinite"} = {}
  ELSE DOMAIN v \cap {"undefined", "nonfinite"} = {}

C29_Disposed ==
  /\ "presence" \in disposed => ~idleTimer /\ typingTimer = "null"
  /\ "registry" \in disposed => tickInterval = "null"
  /\ xlast.reached \cap disposed = {}

\* PresenceManager was disposed while its typing timeout was pending and
\* the registry stopped; the client then got a player:join that reached the
\* handler of PlayerManager alone.
C29_Witness ==
  /\ {"presence", "registry"} \subseteq disposed
  /\ localIsTyping /\ typingTimer = "null"
  /\ xlast.op = "message" /\ xlast.type = "player:join"
  /\ xlast.reached = {"players"}

\* C33: the close event of a socket that is not the client's current socket
\* leaves connectionState, clientId, the reference to the current socket and
\* the heartbeat and reconnect timers as they are.
C33_StaleClose ==
  [][(last'.op = "close" /\ socket # NoSock /\ last'.sock # socket) =>
       UNCHANGED <<state, clientId, socket, heartbeatTimer,
                   heartbeatTimeoutTimer, reconnectTimer>>]_vars

\* C34: at every moment at most one socket of the client is connecting or
\* open.
C34_OneLiveSocket == Cardinality({s \in SockIds : Live(s)}) <= 1

\* C37: with autoReconnect false the client is never 'reconnecting' and no
\* reconnect timer is ever pending.
C37_NoAutoReconnect ==
  ~autoReconnect => state # "reconnecting" /\ reconnectTimer # "pending"

\* C38: whenever the client is 'disconnected' its reconnect attempt counter
\* is 0.
C38_FullBudget == state = "disconnected" => reconnectAttempts = 0

\* C40: 'connected' implies a clientId and a socket held, and a clientId
\* implies 'connected'.
C40_ConnectedHasId ==
  /\ state = "connected" => clientId # NoId /\ socket # NoSock
  /\ clientId # NoId => state = "connected"

\* C32: once the client has its CONNECT, an envelope the server sends it on
\* behalf of another client leaves its clientId, its 'connected' state and
\* its heartbeat (interval and pending timeout) as they are.
C32_NoForgedConnect ==
  [][(state = "connected" /\ last'.op = "message") =>
       UNCHANGED <<clientId, state, heartbeatTimer, heartbeatTimeoutTimer>>]_vars

\* The PLAYER_LEAVE envelopes for session id among the sends to session to.
LeavesFor(sends, id, to) ==
  Cardinality({k \in DOMAIN sends :
                 /\ sends[k].to = to
                 /\ sends[k].msg.type = "player:leave"
                 /\ sends[k].msg.payload.id = id})

\* The session of id ends in this step: terminated by the sweep, or closed
\* by a close event without having been terminated.
Ends(id) ==
  /\ wsState[id] \in {"open", "closing"}
  /\ wsState'[id] \in {"terminated", "closed"}

\* C35: a server callback sends a session that stays open one PLAYER_LEAVE
\* for every session that ends in it, and none for any other session: a
\* session that ends is announced exactly once.
C35_LeaveOnce ==
  [][\A id \in Ids, to \in Ids :
       (wsState'[to] = "open" /\ slast' # slast) =>
         LeavesFor(sent', id, to) = IF Ends(id) THEN 1 ELSE 0]_vars

\* The number q lies in the closed interval between a and b.
Between(q, a, b) ==
  /\ ~IsNaN(q)
  /\ Min(a, b) * q.den <= q.num
  /\ q.num <= Max(a, b) * q.den

\* C31: whenever update() finds a bracketing pair, the fraction t is a number
\* in [0,1] and each component of the new target lies in the closed interval
\* between the components of prev and next, for every buffer content, pairs
\* of snapshots with equal timestamps included.
C31_TargetBetween ==
  [][(ilast'.op = "update" /\ ilast'.pair > 0) =>
       LET prev == positionBuffer[ilast'.pair]
           next == positionBuffer[ilast'.pair + 1]
       IN /\ Between(targetPosition', prev.position, next.position)
          /\ Between(targetRotation', prev.rotation, next.rotation)]_vars

\* The target is the last snapshot received, once there is one.
AtLastSnapshot ==
  ilast.received # <<>> =>
    /\ targetPosition = Frac(ilast.received[1].position, 1)
    /\ targetRotation = Frac(ilast.received[1].rotation, 1)

\* C36: if snapshots stop arriving while update() keeps being called, with
\* arbitrary gaps between the frames, the target eventually equals the
\* position and rotation of the last snapshot received.
C36_SettlesAtLast ==
  <>[][ilast'.op # "push"]_vars => <>[]AtLastSnapshot

\* Every envelope sent to a socket of the client that is OPEN has been
\* handled.
AllDelivered ==
  \A s \in SockIds :
    sockStatus[s] = "open" => ~connectInFlight[s] /\ inbox[s] = <<>>

\* The session the client is connected as is open on the server.
SessionOpen == clientId # NoId /\ wsState[clientId] = "open"

\* C39: whenever the client is 'connected', its session is open on the
\* server and every envelope the server has sent to it has been delivered
\* and handled in order, the ids of PresenceManager.players are the ids of
\* the PlayerRegistry of the server, for every interleaving of a peer
\* joining, leaving and being swept.
C39_Converges ==
  (state = "connected" /\ AllDelivered /\ SessionOpen) =>
    presencePlayers = DOMAIN players

TypeOK ==
  /\ state \in ConnectionState
  /\ socket \in SockIds \cup {NoSock}
  /\ clientId \in SockIds \cup {NoId}
  /\ reconnectAttempts \in 0..(MaxAttempts + MaxSockets)
  /\ leakedReconnect \in 0..MaxLeaked

====
